---- MODULE Spec2Model ----
(***************************************************************************)
(* Model of the local evaluation service's inference engine                *)
(* (package evaluation/service/local): Inference, the batch and case       *)
(* callbacks, the serial and the parallel case executor, the ants worker   *)
(* pool function and the sync.Pool of task parameters.                     *)
(*                                                                         *)
(* Conventions.                                                            *)
(*  - A batch b is one call of Inference.  Objects owned by the call (the  *)
(*    request, the options, the results slice, the WaitGroup) are referred *)
(*    to by the batch number; 0 is the nil reference.                      *)
(*  - Go slices are 0-based: param.idx keeps the Go index and slot idx of  *)
(*    a results slice is element idx + 1 of the TLA+ sequence.             *)
(*  - An error is the sequence of the texts of its wrap chain, outermost   *)
(*    first; the nil error is the empty sequence.                          *)
(***************************************************************************)
EXTENDS Integers, Sequences, FiniteSets, TLC

\* ------------------------------------------------------------------ bounds
MaxCases == 3
MaxWorkers == 2
MaxRejects == 2
PairCases == 2
NumBatches == 2
MaxEvents == 3
\* one parameter per running worker and one in the hands of each executor
MaxParams == MaxWorkers + NumBatches

Batches == 1..NumBatches
Workers == 1..MaxWorkers
ParamIds == 1..MaxParams

VARIABLES
    in,          \* [Batches -> input]: the call's arguments and the behaviour of its collaborators
    pc,          \* [Batches -> position of the Inference call]
    ctx,         \* [Batches -> the ctx variable of Inference]
    req,         \* [Batches -> the EvalCaseIDs of the request]
    evalCases,   \* [Batches -> the loaded eval cases]
    results,     \* [Batches -> the results slice]
    idx,         \* [Batches -> loop index of the executor (Go index)]
    held,        \* [Batches -> the param the executor holds, 0 if none]
    invokeErr,   \* [Batches -> the error pool.Invoke returned for the held param]
    wg,          \* [Batches -> counter of the batch's sync.WaitGroup]
    ret,         \* [Batches -> what Inference returned]
    params,      \* [ParamIds -> evalCaseInferenceParam]
    allocated,   \* param ids that exist
    recycler,    \* bag of param ids inside evalCaseInferenceParamPool, as [ParamIds -> Nat]
    worker,      \* [Workers -> state of an ants worker goroutine]
    svc,         \* the service's stored defaults (fields of local)
    opts,        \* [Batches -> callOpts, the effective options of the call]
    pool,        \* s.evalCaseInferencePool with its sync.Once and cached error
    rejects,     \* number of submissions the pool has rejected
    hist,        \* [Batches -> history: writes, signals, hook and runner calls]
    agui,        \* one AG-UI run: its input, the position of its goroutine, its channels
    turn         \* one turn of inferenceInvocation: its event stream and its local variables

vars == <<in, pc, ctx, req, evalCases, results, idx, held, invokeErr, wg, ret,
          params, allocated, recycler, worker, svc, opts, pool, rejects, hist,
          agui, turn>>

\* ------------------------------------------------------------ values
NoErr == <<>>

StatusPassed == "passed"
StatusFailed == "failed"

\* A nil []*evalset.Invocation and a non-nil one.
NilInferences == [isNil |-> TRUE, items |-> <<>>]
Invocations(items) == [isNil |-> FALSE, items |-> items]

\* A nil *service.InferenceResult (an unwritten slot).
NilResult == [isNilResult |-> TRUE, EvalCaseID |-> "", SessionID |-> <<>>, UserID |-> "",
              EvalMode |-> "", Status |-> "", ErrorMessage |-> NoErr,
              Inferences |-> NilInferences]

\* opts.SessionIDSupplier(ctx): the supplier is a function of the context.
SessionIDSupplier(o, c) == <<o.SessionIDSupplier, c>>

\* ------------------------------------------------------------ eval cases
\* An *evalset.EvalCase.  A conversation is a sequence of invocations; an
\* invocation is named by its user content, "nil" is a nil *Invocation and
\* "nouser" an invocation whose UserContent is nil.
EvalModeDefault == ""
EvalModeTrace == "trace"

NilSessionInput == [isNil |-> TRUE, UserID |-> "", State |-> <<>>]
SessionInputOf(u) == [isNil |-> FALSE, UserID |-> u, State |-> <<"from_session">>]

EvalCase(id, mode, conv, actual, si, cm) ==
    [isNil |-> FALSE, EvalID |-> id, EvalMode |-> mode, Conversation |-> conv,
     ActualConversation |-> actual, SessionInput |-> si, ContextMessages |-> cm]

NilEvalCase == [isNil |-> TRUE, EvalID |-> "", EvalMode |-> "", Conversation |-> <<>>,
                ActualConversation |-> <<>>, SessionInput |-> NilSessionInput,
                ContextMessages |-> <<>>]

\* ------------------------------------------------------------ case results
newInferenceResult(sessionID, evalCase) ==
    [isNilResult |-> FALSE,
     EvalCaseID |-> evalCase.EvalID,
     EvalMode |-> evalCase.EvalMode,
     SessionID |-> sessionID,
     UserID |-> IF evalCase.SessionInput.isNil THEN "" ELSE evalCase.SessionInput.UserID,
     Status |-> "",
     ErrorMessage |-> NoErr,
     Inferences |-> NilInferences]

\* Mutant of newFailedInferenceResult: the invocations are left in place.
newFailedInferenceResult_keepsInferences(result, err) ==
    [result EXCEPT !.Status = StatusFailed, !.ErrorMessage = err]

\* Mutant of newFailedInferenceResult: the error is not recorded.
newFailedInferenceResult_noMessage(result, err) ==
    [result EXCEPT !.Status = StatusFailed, !.Inferences = NilInferences]

newFailedInferenceResult(result, err) ==
    [result EXCEPT !.Status = StatusFailed, !.ErrorMessage = err, !.Inferences = NilInferences]

\* fmt.Errorf("<text>: %w", err)
Wrap(text, err) == <<text>> \o err

\* fmt.Errorf("<text> (app=%s, evalSetID=%s): %w", args..., err)
Errorf(text, args, err) == <<text>> \o args \o err

\* Mutant of ErrorsJoin: the first error is lost.
ErrorsJoin_second(a, b) == b

\* errors.Join(a, b): nil operands are dropped, the texts are joined in order.
ErrorsJoin(a, b) == a \o b

\* seedMessagesFromPointers: a nil pointer in the context messages is an error.
seedMessagesFromPointers(messages) ==
    IF \E i \in 1..Len(messages) : messages[i] = "nil"
    THEN [seed |-> <<>>, err |-> <<"context message is nil">>]
    ELSE [seed |-> messages, err |-> NoErr]

\* An agent.RunOption is applied to the agent.RunOptions of a runner call.
\* agent.WithInjectedContextMessages adds its messages after those already
\* injected, agent.WithRuntimeState replaces the runtime state.
WithInjectedContextMessages(messages) == [kind |-> "inject", val |-> messages]
WithRuntimeState(state) == [kind |-> "state", val |-> state]

NoRunOptions == [InjectedContextMessages |-> <<>>, RuntimeState |-> <<>>]

RECURSIVE ApplyRunOptions(_, _)
ApplyRunOptions(ro, runOpts) ==
    IF runOpts = <<>> THEN ro
    ELSE LET o == Head(runOpts) IN
         ApplyRunOptions(
            IF o.kind = "inject"
            THEN [ro EXCEPT !.InjectedContextMessages = @ \o o.val]
            ELSE [ro EXCEPT !.RuntimeState = o.val],
            Tail(runOpts))

\* Mutant of mergedRunOptions: the case's option goes first.
mergedRunOptions_caseFirst(runOptions, seedMessages) ==
    IF Len(seedMessages) > 0
    THEN <<WithInjectedContextMessages(seedMessages)>> \o runOptions
    ELSE runOptions

\* The run options inferenceEvalCase hands to inference.Inference.
mergedRunOptions(runOptions, seedMessages) ==
    IF Len(seedMessages) > 0
    THEN runOptions \o <<WithInjectedContextMessages(seedMessages)>>
    ELSE runOptions

\* inference.Inference (package evaluation/service/internal/inference): one
\* runner call per turn, in order; the first failing call ends the case.
\* Each call gets the run options it was given followed by the session
\* input's state as runtime state; seen is what the runner finds once it
\* has applied them.
\* run is the runner's behaviour for the case: the error of its call, NoErr
\* if it answers, RunnerPanic if its first call panics.
RunnerPanic == <<"panic">>

InternalInference(conversation, sessionInput, runOptions, run) ==
    LET seen == ApplyRunOptions(NoRunOptions,
                                runOptions \o <<WithRuntimeState(sessionInput.State)>>)
    IN
    IF run = RunnerPanic
    THEN [inferences |-> NilInferences, err |-> NoErr, calls |-> 1, panicked |-> TRUE,
          seen |-> seen]
    ELSE IF run # NoErr
    THEN [inferences |-> NilInferences, err |-> run, calls |-> 1, panicked |-> FALSE,
          seen |-> seen]
    ELSE [inferences |-> Invocations([i \in 1..Len(conversation) |-> <<"answer", conversation[i]>>]),
          err |-> NoErr, calls |-> Len(conversation), panicked |-> FALSE, seen |-> seen]

\* Mutant of validationError: the session input is not checked.
validationError_sessionUnchecked(evalCase) ==
    IF Len(evalCase.ActualConversation) # 0 /\ evalCase.EvalMode # EvalModeTrace
    THEN "actualConversation is only supported in trace mode"
    ELSE ""

\* The two checks every case goes through first: the text of the error, ""
\* if the case passes them.
validationError(evalCase) ==
    IF evalCase.SessionInput.isNil THEN "session input is nil"
    ELSE IF Len(evalCase.ActualConversation) # 0 /\ evalCase.EvalMode # EvalModeTrace
    THEN "actualConversation is only supported in trace mode"
    ELSE ""

\* Mutant of actualConversationError: the lengths are not compared.
actualConversationError_lengthUnchecked(evalCase) ==
    IF \E i \in 1..Len(evalCase.ActualConversation) :
          /\ evalCase.ActualConversation[i] = "nil"
          /\ \A j \in 1..(i-1) : evalCase.ActualConversation[j] # "nouser"
    THEN "actual invocation is nil"
    ELSE IF \E i \in 1..Len(evalCase.ActualConversation) :
               evalCase.ActualConversation[i] = "nouser"
    THEN "actual invocation user content is nil"
    ELSE ""

\* The checks of a recorded actual conversation: its length against the
\* expected conversation's, then turn by turn the first nil invocation or
\* nil user content.
actualConversationError(evalCase) ==
    IF /\ Len(evalCase.Conversation) # 0
       /\ Len(evalCase.ActualConversation) # Len(evalCase.Conversation)
    THEN "actual conversation length does not match conversation length"
    ELSE IF \E i \in 1..Len(evalCase.ActualConversation) :
               /\ evalCase.ActualConversation[i] = "nil"
               /\ \A j \in 1..(i-1) : evalCase.ActualConversation[j] # "nouser"
    THEN "actual invocation is nil"
    ELSE IF \E i \in 1..Len(evalCase.ActualConversation) :
               evalCase.ActualConversation[i] = "nouser"
    THEN "actual invocation user content is nil"
    ELSE ""

\* Mutant of traceError: an empty conversation is let through.
traceError_emptyAllowed(evalCase) ==
    IF Len(evalCase.ActualConversation) # 0 THEN actualConversationError(evalCase)
    ELSE ""

\* The trace-mode branch: the error that fails the case, "" if none.
traceError(evalCase) ==
    IF Len(evalCase.ActualConversation) # 0 THEN actualConversationError(evalCase)
    ELSE IF Len(evalCase.Conversation) = 0 THEN "invocations are empty"
    ELSE ""

\* The trace-mode branch: the invocations of a case that passes.
traceInferences(evalCase) ==
    IF Len(evalCase.ActualConversation) # 0
    THEN Invocations(evalCase.ActualConversation)
    ELSE Invocations(evalCase.Conversation)

\* The part of inferenceEvalCase between the registration of the deferred
\* after-case callback and the return statement: the result and the err
\* variable as the deferred function finds them; panicked if a panic, not
\* a return, ends the body.
inferenceEvalCaseBody(sessionID, evalCase, o, run) ==
    LET result == newInferenceResult(sessionID, evalCase)
        failed(text) ==
            LET err == <<"inference eval case", evalCase.EvalID, text>>
            IN  [result |-> newFailedInferenceResult(result, err), err |-> err, runnerCalls |-> 0,
                 panicked |-> FALSE, seen |-> NoRunOptions]
        passed(inferences, n, seen) ==
            [result |-> [result EXCEPT !.Inferences = inferences, !.Status = StatusPassed],
             err |-> NoErr, runnerCalls |-> n, panicked |-> FALSE, seen |-> seen]
    IN
    IF validationError(evalCase) # "" THEN failed(validationError(evalCase))
    ELSE IF evalCase.EvalMode = EvalModeTrace
    THEN IF traceError(evalCase) # "" THEN failed(traceError(evalCase))
         ELSE passed(traceInferences(evalCase), 0, NoRunOptions)
    ELSE IF Len(evalCase.Conversation) = 0 THEN failed("invocations are empty")
    ELSE LET sm == seedMessagesFromPointers(evalCase.ContextMessages) IN
         IF sm.err # NoErr
         THEN LET err == <<"inference eval case", evalCase.EvalID>> \o sm.err
              IN  [result |-> newFailedInferenceResult(result, err), err |-> err, runnerCalls |-> 0,
                   panicked |-> FALSE, seen |-> NoRunOptions]
         ELSE LET r == InternalInference(evalCase.Conversation, evalCase.SessionInput,
                                         mergedRunOptions(o.RunOptions, sm.seed), run)
              IN
              IF r.panicked
              THEN [result |-> result, err |-> NoErr, runnerCalls |-> r.calls, panicked |-> TRUE,
                    seen |-> r.seen]
              ELSE IF r.err # NoErr
              THEN LET err == <<"inference eval case", evalCase.EvalID>> \o r.err
                   IN  [result |-> newFailedInferenceResult(result, err), err |-> err,
                        runnerCalls |-> r.calls, panicked |-> FALSE, seen |-> r.seen]
              ELSE passed(r.inferences, r.calls, r.seen)

\* ------------------------------------------------------------ case callbacks
\* A callback set (service.Callbacks) is given by what its hooks answer:
\*   BeforeInferenceSet  [err, ctx, ids]   ctx: the value the returned context
\*                                         adds to the one it was given, "" if
\*                                         no context is returned;
\*                                         ids <<"keep">> = request left alone
\*   AfterInferenceSet   err
\*   BeforeInferenceCase [case id -> [err, ctx]]
\*   AfterInferenceCase  [case id -> err]
\* Mutant of runBeforeInferenceCaseCallbacks: the callback's error is
\* dropped.
runBeforeInferenceCaseCallbacks_errDropped(c, callbacks, evalCaseID) ==
    LET h == callbacks.BeforeInferenceCase[evalCaseID] IN
    [ctx |-> IF h.ctx # "" THEN c \o <<h.ctx>> ELSE c, err |-> NoErr]

\* Mutant of runBeforeInferenceCaseCallbacks: the context the callback
\* returns is dropped.
runBeforeInferenceCaseCallbacks_ctxDropped(c, callbacks, evalCaseID) ==
    LET h == callbacks.BeforeInferenceCase[evalCaseID] IN
    [ctx |-> c,
     err |-> IF h.err # NoErr THEN Wrap("run before inference case callbacks", h.err) ELSE NoErr]

runBeforeInferenceCaseCallbacks(c, callbacks, evalCaseID) ==
    LET h == callbacks.BeforeInferenceCase[evalCaseID] IN
    [ctx |-> IF h.ctx # "" THEN c \o <<h.ctx>> ELSE c,
     err |-> IF h.err # NoErr THEN Wrap("run before inference case callbacks", h.err) ELSE NoErr]

runAfterInferenceCaseCallbacks(callbacks, evalCaseID) ==
    LET afterErr == callbacks.AfterInferenceCase[evalCaseID] IN
    IF afterErr # NoErr THEN Wrap("run after inference case callbacks", afterErr) ELSE NoErr

\* inferenceEvalCase: the result of one case, with the calls it made
\* (before: before-case callbacks, runner: agent runner calls, after:
\* after-case callbacks, beforeCtx: the context handed to the before-case
\* callbacks, caseCtx: the context handed to the runner and to the
\* after-case callbacks, afterArgs: Result and Error the after-case callbacks
\* received, runOptions: the run options the runner found); panicked if the call ends in a panic, after its deferred
\* after-case callbacks have run, and so returns no result.
NoCalls == [before |-> 0, runner |-> 0, after |-> 0, beforeCtx |-> <<>>, caseCtx |-> <<>>,
            afterArgs |-> [Result |-> NilResult, Error |-> NoErr],
            runOptions |-> NoRunOptions]

\* Mutant of inferenceEvalCase: the after-case callbacks are given the
\* result and the error as they are when the function is deferred.
inferenceEvalCase_hookEarly(c, evalCase, o, run) ==
    LET sessionID == SessionIDSupplier(o, c) IN
    IF evalCase.isNil
    THEN [result |-> newFailedInferenceResult(
                        [isNilResult |-> FALSE, EvalCaseID |-> "", EvalMode |-> EvalModeDefault,
                         SessionID |-> sessionID, UserID |-> "", Status |-> "",
                         ErrorMessage |-> NoErr, Inferences |-> NilInferences],
                        <<"eval case is nil">>),
          calls |-> NoCalls, panicked |-> FALSE]
    ELSE
    LET b == runBeforeInferenceCaseCallbacks(c, o.Callbacks, evalCase.EvalID) IN
    IF b.err # NoErr
    THEN [result |-> newFailedInferenceResult(
                        [isNilResult |-> FALSE, EvalCaseID |-> evalCase.EvalID,
                         EvalMode |-> EvalModeDefault, SessionID |-> sessionID, UserID |-> "",
                         Status |-> "", ErrorMessage |-> NoErr, Inferences |-> NilInferences],
                        b.err),
          calls |-> [NoCalls EXCEPT !.before = 1, !.beforeCtx = c], panicked |-> FALSE]
    ELSE
    LET body == inferenceEvalCaseBody(sessionID, evalCase, o, run)
        afterErr == runAfterInferenceCaseCallbacks(o.Callbacks, evalCase.EvalID)
    IN  [result |-> IF afterErr # NoErr
                    THEN newFailedInferenceResult(body.result, ErrorsJoin(body.err, afterErr))
                    ELSE body.result,
         calls |-> [before |-> 1, runner |-> body.runnerCalls, after |-> 1,
                    beforeCtx |-> c, caseCtx |-> b.ctx,
                    afterArgs |-> [Result |-> newInferenceResult(sessionID, evalCase),
                                  Error |-> NoErr],
                    runOptions |-> body.seen],
         panicked |-> body.panicked]

inferenceEvalCase(c, evalCase, o, run) ==
    LET sessionID == SessionIDSupplier(o, c) IN
    IF evalCase.isNil
    THEN [result |-> newFailedInferenceResult(
                        [isNilResult |-> FALSE, EvalCaseID |-> "", EvalMode |-> EvalModeDefault,
                         SessionID |-> sessionID, UserID |-> "", Status |-> "",
                         ErrorMessage |-> NoErr, Inferences |-> NilInferences],
                        <<"eval case is nil">>),
          calls |-> NoCalls, panicked |-> FALSE]
    ELSE
    LET b == runBeforeInferenceCaseCallbacks(c, o.Callbacks, evalCase.EvalID) IN
    IF b.err # NoErr
    THEN [result |-> newFailedInferenceResult(
                        [isNilResult |-> FALSE, EvalCaseID |-> evalCase.EvalID,
                         EvalMode |-> EvalModeDefault, SessionID |-> sessionID, UserID |-> "",
                         Status |-> "", ErrorMessage |-> NoErr, Inferences |-> NilInferences],
                        b.err),
          calls |-> [NoCalls EXCEPT !.before = 1, !.beforeCtx = c], panicked |-> FALSE]
    ELSE
    LET body == inferenceEvalCaseBody(sessionID, evalCase, o, run)
        afterErr == runAfterInferenceCaseCallbacks(o.Callbacks, evalCase.EvalID)
    IN  [result |-> IF afterErr # NoErr
                    THEN newFailedInferenceResult(body.result, ErrorsJoin(body.err, afterErr))
                    ELSE body.result,
         calls |-> [before |-> 1, runner |-> body.runnerCalls, after |-> 1,
                    beforeCtx |-> c, caseCtx |-> b.ctx,
                    afterArgs |-> [Result |-> body.result, Error |-> body.err],
                    runOptions |-> body.seen],
         panicked |-> body.panicked]

\* ------------------------------------------------------------ options
\* service.Options as resolveInferenceOptions fills it.
OptionFields == {"EvalSetManager", "SessionIDSupplier", "Callbacks", "RunOptions",
                 "EvalCaseParallelism", "EvalCaseParallelInferenceEnabled"}

\* A service.Option sets the fields named in o.set to the values in o.val.
\* Two more kinds of option work on the run-option list in place: one
\* appends o.val.RunOptions to it ("RunOptions+"), one assigns the first
\* element of o.val.RunOptions to its first element, if it has one
\* ("RunOptions[1]").
ApplyOption(callOpts, o) ==
    [f \in OptionFields |->
        IF f \in o.set THEN o.val[f]
        ELSE IF f = "RunOptions" /\ "RunOptions+" \in o.set
             THEN callOpts[f] \o o.val[f]
        ELSE IF f = "RunOptions" /\ "RunOptions[1]" \in o.set /\ callOpts[f] # <<>>
             THEN [callOpts[f] EXCEPT ![1] = o.val[f][1]]
        ELSE callOpts[f]]

\* The run-option list of the service after the options `opt` were applied
\* to call options whose RunOptions is (aliased) or is not a slice of the
\* same array: an assignment of another list to the field ends the
\* sharing, an append leaves the elements of the service's list alone, an
\* assignment to the first element of a shared list is one to the
\* service's.
RECURSIVE SharedRunOptions(_, _, _)
SharedRunOptions(runOptions, aliased, opt) ==
    IF opt = <<>> THEN runOptions
    ELSE LET o == Head(opt) IN
         IF "RunOptions" \in o.set
         THEN SharedRunOptions(runOptions, FALSE, Tail(opt))
         ELSE IF "RunOptions[1]" \in o.set /\ aliased /\ runOptions # <<>>
              THEN SharedRunOptions([runOptions EXCEPT ![1] = o.val.RunOptions[1]],
                                    aliased, Tail(opt))
              ELSE SharedRunOptions(runOptions, aliased, Tail(opt))

\* Mutant of ApplyOptions: the options are applied last to first.
RECURSIVE ApplyOptions_reversed(_, _)
ApplyOptions_reversed(callOpts, opt) ==
    IF opt = <<>> THEN callOpts
    ELSE ApplyOption(ApplyOptions_reversed(callOpts, Tail(opt)), Head(opt))

RECURSIVE ApplyOptions(_, _)
ApplyOptions(callOpts, opt) ==
    IF opt = <<>> THEN callOpts
    ELSE ApplyOptions(ApplyOption(callOpts, Head(opt)), Tail(opt))

\* A callback set without hooks (also the nil *service.Callbacks).
NoCallbacks ==
    [BeforeInferenceSet |-> [err |-> NoErr, ctx |-> "", ids |-> <<"keep">>],
     AfterInferenceSet |-> NoErr,
     BeforeInferenceCase |-> [id \in {} |-> [err |-> NoErr, ctx |-> ""]],
     AfterInferenceCase |-> [id \in {} |-> NoErr]]

\* The zero service.Options.
NilOptions == [EvalSetManager |-> "nil", SessionIDSupplier |-> "nil", Callbacks |-> NoCallbacks,
               RunOptions |-> <<>>, EvalCaseParallelism |-> 0,
               EvalCaseParallelInferenceEnabled |-> FALSE]

\* Mutant of createEvalCaseInferencePool: the pool gets one worker too many.
createEvalCaseInferencePool_oneMore(size) ==
    IF size <= 0
    THEN [size |-> 0, err |-> <<"pool size must be greater than 0">>]
    ELSE [size |-> size + 1, err |-> NoErr]

\* createEvalCaseInferencePool: the capacity of the new pool, or an error.
createEvalCaseInferencePool(size) ==
    IF size <= 0
    THEN [size |-> 0, err |-> <<"pool size must be greater than 0">>]
    ELSE [size |-> size, err |-> NoErr]

\* The pool fields of the service before the first ensure call; built
\* counts the calls of createEvalCaseInferencePool.
NoPool == [once |-> FALSE, size |-> 0, err |-> NoErr, built |-> 0]

\* Mutant of ensureEvalCaseInferencePool: no Once, every call constructs.
ensureEvalCaseInferencePool_everyCall(s, pl) ==
    LET c == createEvalCaseInferencePool(s.evalCaseParallelism)
    IN  [once |-> TRUE, size |-> c.size, err |-> c.err, built |-> pl.built + 1]

\* ensureEvalCaseInferencePool: the pool state after the call; the Once runs
\* the construction the first time only (a concurrent caller of Once.Do
\* waits until the first has finished, so the call is one step).
ensureEvalCaseInferencePool(s, pl) ==
    IF pl.once THEN pl
    ELSE LET c == createEvalCaseInferencePool(s.evalCaseParallelism)
         IN  [once |-> TRUE, size |-> c.size, err |-> c.err, built |-> pl.built + 1]

\* Mutant of resolveInferenceOptions: the worker count is not checked.
resolveInferenceOptions_countUnchecked(s, pl, opt) ==
    LET callOpts == ApplyOptions(
            [EvalSetManager |-> s.evalSetManager,
             SessionIDSupplier |-> s.sessionIDSupplier,
             Callbacks |-> s.callbacks,
             RunOptions |-> s.runOptions,
             EvalCaseParallelism |-> s.evalCaseParallelism,
             EvalCaseParallelInferenceEnabled |-> s.evalCaseParallelInferenceEnabled], opt)
        shared == SharedRunOptions(s.runOptions, FALSE, opt)
    IN
    IF callOpts.EvalSetManager = "nil"
    THEN [callOpts |-> NilOptions, err |-> <<"eval set manager is nil">>, pool |-> pl, runOptions |-> shared]
    ELSE IF callOpts.SessionIDSupplier = "nil"
    THEN [callOpts |-> NilOptions, err |-> <<"session id supplier is nil">>, pool |-> pl, runOptions |-> shared]
    ELSE IF callOpts.EvalCaseParallelInferenceEnabled
    THEN LET e == ensureEvalCaseInferencePool(s, pl) IN
         IF e.err # NoErr
         THEN [callOpts |-> NilOptions, err |-> e.err, pool |-> e, runOptions |-> shared]
         ELSE [callOpts |-> callOpts, err |-> NoErr, pool |-> e, runOptions |-> shared]
    ELSE [callOpts |-> callOpts, err |-> NoErr, pool |-> pl, runOptions |-> shared]

\* Mutant of resolveInferenceOptions: RunOptions is s.runOptions itself, not
\* a copy of it.
resolveInferenceOptions_noCopy(s, pl, opt) ==
    LET callOpts == ApplyOptions(
            [EvalSetManager |-> s.evalSetManager,
             SessionIDSupplier |-> s.sessionIDSupplier,
             Callbacks |-> s.callbacks,
             RunOptions |-> s.runOptions,
             EvalCaseParallelism |-> s.evalCaseParallelism,
             EvalCaseParallelInferenceEnabled |-> s.evalCaseParallelInferenceEnabled], opt)
        shared == SharedRunOptions(s.runOptions, TRUE, opt)
    IN
    IF callOpts.EvalSetManager = "nil"
    THEN [callOpts |-> NilOptions, err |-> <<"eval set manager is nil">>, pool |-> pl, runOptions |-> shared]
    ELSE IF callOpts.SessionIDSupplier = "nil"
    THEN [callOpts |-> NilOptions, err |-> <<"session id supplier is nil">>, pool |-> pl, runOptions |-> shared]
    ELSE IF callOpts.EvalCaseParallelInferenceEnabled
    THEN IF callOpts.EvalCaseParallelism <= 0
         THEN [callOpts |-> NilOptions,
               err |-> <<"eval case parallelism must be greater than 0">>, pool |-> pl, runOptions |-> shared]
         ELSE LET e == ensureEvalCaseInferencePool(s, pl) IN
              IF e.err # NoErr
              THEN [callOpts |-> NilOptions, err |-> e.err, pool |-> e, runOptions |-> shared]
              ELSE [callOpts |-> callOpts, err |-> NoErr, pool |-> e, runOptions |-> shared]
    ELSE [callOpts |-> callOpts, err |-> NoErr, pool |-> pl, runOptions |-> shared]

\* resolveInferenceOptions: the call options are the service's stored values
\* (RunOptions a copy of the stored list) with the options applied in order,
\* and are checked; runOptions is the stored list after that.
resolveInferenceOptions(s, pl, opt) ==
    LET callOpts == ApplyOptions(
            [EvalSetManager |-> s.evalSetManager,
             SessionIDSupplier |-> s.sessionIDSupplier,
             Callbacks |-> s.callbacks,
             RunOptions |-> s.runOptions,
             EvalCaseParallelism |-> s.evalCaseParallelism,
             EvalCaseParallelInferenceEnabled |-> s.evalCaseParallelInferenceEnabled], opt)
        shared == SharedRunOptions(s.runOptions, FALSE, opt)
    IN
    IF callOpts.EvalSetManager = "nil"
    THEN [callOpts |-> NilOptions, err |-> <<"eval set manager is nil">>, pool |-> pl, runOptions |-> shared]
    ELSE IF callOpts.SessionIDSupplier = "nil"
    THEN [callOpts |-> NilOptions, err |-> <<"session id supplier is nil">>, pool |-> pl, runOptions |-> shared]
    ELSE IF callOpts.EvalCaseParallelInferenceEnabled
    THEN IF callOpts.EvalCaseParallelism <= 0
         THEN [callOpts |-> NilOptions,
               err |-> <<"eval case parallelism must be greater than 0">>, pool |-> pl, runOptions |-> shared]
         ELSE LET e == ensureEvalCaseInferencePool(s, pl) IN
              IF e.err # NoErr
              THEN [callOpts |-> NilOptions, err |-> e.err, pool |-> e, runOptions |-> shared]
              ELSE [callOpts |-> callOpts, err |-> NoErr, pool |-> e, runOptions |-> shared]
    ELSE [callOpts |-> callOpts, err |-> NoErr, pool |-> pl, runOptions |-> shared]

\* ------------------------------------------------------------ case loading
\* The filter loops of loadInferenceEvalCases: nil cases are skipped, and
\* unless all cases are taken, so are the cases whose id is not wanted.
RECURSIVE filterEvalCases(_, _, _)
filterEvalCases(cases, all, wanted) ==
    IF cases = <<>> THEN <<>>
    ELSE LET rest == filterEvalCases(Tail(cases), all, wanted) IN
         IF Head(cases).isNil THEN rest
         ELSE IF all \/ Head(cases).EvalID \in wanted
              THEN <<Head(cases)>> \o rest
              ELSE rest

\* Mutant of loadInferenceEvalCases: the requested ids are not looked at.
loadInferenceEvalCases_unfiltered(evalCaseIDs, evalSet, getErr) ==
    IF getErr # NoErr
    THEN [evalCases |-> <<>>, err |-> Wrap("get eval set", getErr)]
    ELSE [evalCases |-> filterEvalCases(evalSet, TRUE, {}), err |-> NoErr]

\* Mutant of loadInferenceEvalCases: the cases are looked up id by id, in
\* the order of the requested ids.
loadInferenceEvalCases_requestOrder(evalCaseIDs, evalSet, getErr) ==
    LET RECURSIVE lookup(_)
        lookup(ids) ==
            IF ids = <<>> THEN <<>>
            ELSE SelectSeq(evalSet, LAMBDA c : ~c.isNil /\ c.EvalID = Head(ids))
                 \o lookup(Tail(ids))
    IN
    IF getErr # NoErr
    THEN [evalCases |-> <<>>, err |-> Wrap("get eval set", getErr)]
    ELSE IF Len(evalCaseIDs) = 0
    THEN [evalCases |-> filterEvalCases(evalSet, TRUE, {}), err |-> NoErr]
    ELSE [evalCases |-> lookup(evalCaseIDs), err |-> NoErr]

\* loadInferenceEvalCases: getErr is what mgr.Get answers, evalSet the cases
\* of the eval set it returns.
loadInferenceEvalCases(evalCaseIDs, evalSet, getErr) ==
    IF getErr # NoErr
    THEN [evalCases |-> <<>>, err |-> Wrap("get eval set", getErr)]
    ELSE IF Len(evalCaseIDs) = 0
    THEN [evalCases |-> filterEvalCases(evalSet, TRUE, {}), err |-> NoErr]
    ELSE LET wanted == {evalCaseIDs[i] : i \in 1..Len(evalCaseIDs)}
         IN  [evalCases |-> filterEvalCases(evalSet, FALSE, wanted), err |-> NoErr]

\* ------------------------------------------------------------ state helpers
\* The zero evalCaseInferenceParam (what sync.Pool's New returns and what
\* reset leaves).  A context is the chain of values it carries, the nil
\* context is the empty chain.
ZeroParam == [idx |-> 0, ctx |-> <<>>, req |-> 0, evalCase |-> NilEvalCase, opts |-> 0,
              svc |-> 0, results |-> 0, wg |-> 0]

\* Mutant of reset: the request and the results slice are left in place.
reset_keepsResults(p) == [ZeroParam EXCEPT !.req = p.req, !.results = p.results]

reset(p) == ZeroParam

IdleWorker == [pc |-> "idle", param |-> 0, wg |-> 0, result |-> NilResult,
               calls |-> NoCalls, task |-> <<0, 0>>]

Busy == {w \in Workers : worker[w].pc # "idle"}

\* What Inference returns: results (nil or a slice) and err.
NilResults == [isNil |-> TRUE, items |-> <<>>]
Slice(items) == [isNil |-> FALSE, items |-> items]
NoReturn == [results |-> NilResults, err |-> NoErr]

\* The history of a batch, kept for the properties only: per slot the
\* number of writes, of barrier signals by a worker and by the executor and
\* of parameters put back; the number of wg.Add calls, how often the
\* counter came to zero (in all, counted up to 2, and after the last case
\* was counted), the
\* rejected slots, whether a slot was written while a lower one was still
\* nil, the calls of each case's pipeline and of the batch-level steps,
\* the context mgr.Get was given and what the after-batch callbacks were
\* given.
NoHist == [writes |-> [i \in 1..MaxCases |-> 0],
           workerSignals |-> [i \in 1..MaxCases |-> 0],
           executorSignals |-> [i \in 1..MaxCases |-> 0],
           puts |-> [i \in 1..MaxCases |-> 0],
           dirtyPuts |-> 0,
           adds |-> 0,
           zeros |-> 0,
           finalZeros |-> 0,
           rejected |-> {},
           overtaken |-> FALSE,
           calls |-> [i \in 1..MaxCases |-> NoCalls],
           beforeSet |-> 0, loads |-> 0, afterSet |-> 0,
           loadCtx |-> <<>>,
           afterSetArgs |-> [ctx |-> <<>>, Results |-> NilResults, Error |-> NoErr]]

\* The history after the counter of batch b's WaitGroup changed by n, for
\* the case of slot `slot`, on behalf of `by` (a worker or the executor).
wgHist(b, n, slot, by) ==
    [hist EXCEPT ![b].adds = IF n > 0 THEN @ + n ELSE @,
                 ![b].workerSignals[slot] = IF n < 0 /\ by = "worker" THEN @ - n ELSE @,
                 ![b].executorSignals[slot] = IF n < 0 /\ by = "executor" THEN @ - n ELSE @,
                 ![b].zeros = IF wg[b] + n = 0 /\ @ < 2 THEN @ + 1 ELSE @,
                 ![b].finalZeros = IF /\ wg[b] + n = 0
                                      /\ hist[b].adds + (IF n > 0 THEN n ELSE 0)
                                            = Len(evalCases[b])
                                   THEN @ + 1 ELSE @]

\* wg.Add(1)
wgAdd(b, slot) ==
    /\ wg' = [wg EXCEPT ![b] = @ + 1]
    /\ hist' = wgHist(b, 1, slot, "executor")

\* Mutant of wgDone: the barrier is signaled twice.
wgDone_twice(b, slot, by) ==
    /\ wg' = [wg EXCEPT ![b] = @ - 2]
    /\ hist' = wgHist(b, -2, slot, by)

\* wg.Done()
wgDone(b, slot, by) ==
    /\ wg' = [wg EXCEPT ![b] = @ - 1]
    /\ hist' = wgHist(b, -1, slot, by)

\* ------------------------------------------------------------ Inference
\* Inference, up to the before-batch callbacks: option resolution.
InferenceResolve(b) ==
    /\ pc[b] = "start"
    /\ IF in[b].after = 0 THEN TRUE ELSE pc[in[b].after] = "returned" /\ Busy = {}
    /\ LET r == resolveInferenceOptions(svc, pool, in[b].opt) IN
       /\ pool' = r.pool
       /\ opts' = [opts EXCEPT ![b] = r.callOpts]
       /\ IF r.err # NoErr
          THEN /\ ret' = [ret EXCEPT ![b] = [results |-> NilResults, err |-> r.err]]
               /\ pc' = [pc EXCEPT ![b] = "returned"]
          ELSE /\ ret' = ret
               /\ pc' = [pc EXCEPT ![b] = "beforeSet"]
       /\ svc' = [svc EXCEPT !.runOptions = r.runOptions]
    /\ UNCHANGED <<in, ctx, req, evalCases, results, idx, held, invokeErr, wg,
                   params, allocated, recycler, worker, rejects, hist,
                   agui, turn>>

\* Mutant of InferenceBeforeSet: the after-batch callbacks are deferred
\* before the before-batch callbacks run, so they also run on its error.
InferenceBeforeSet_deferFirst(b) ==
    /\ pc[b] = "beforeSet"
    /\ LET h == opts[b].Callbacks.BeforeInferenceSet
           at == <<in[b].AppName, in[b].EvalSetID>>
           err == IF h.err # NoErr
                  THEN Errorf("run before inference set callbacks", at, h.err) ELSE NoErr
       IN
       /\ ctx' = [ctx EXCEPT ![b] = IF h.ctx # "" THEN @ \o <<h.ctx>> ELSE @]
       /\ req' = [req EXCEPT ![b] = IF h.ids # <<"keep">> THEN h.ids ELSE @]
       /\ hist' = [hist EXCEPT ![b].beforeSet = @ + 1]
       /\ IF err # NoErr
          THEN /\ ret' = [ret EXCEPT ![b] =
                            [results |-> NilResults,
                             err |-> Errorf("run before inference set callbacks", at, err)]]
               /\ pc' = [pc EXCEPT ![b] = "afterSet"]
          ELSE /\ ret' = ret
               /\ pc' = [pc EXCEPT ![b] = "load"]
    /\ UNCHANGED <<in, evalCases, results, idx, held, invokeErr, wg,
                   params, allocated, recycler, worker, svc, opts, pool, rejects,
                   agui, turn>>

\* Mutant of InferenceBeforeSet: the context the callbacks return is not
\* taken.
InferenceBeforeSet_ctxIgnored(b) ==
    /\ pc[b] = "beforeSet"
    /\ LET h == opts[b].Callbacks.BeforeInferenceSet
           at == <<in[b].AppName, in[b].EvalSetID>>
           err == IF h.err # NoErr
                  THEN Errorf("run before inference set callbacks", at, h.err) ELSE NoErr
       IN
       /\ ctx' = ctx
       /\ req' = [req EXCEPT ![b] = IF h.ids # <<"keep">> THEN h.ids ELSE @]
       /\ hist' = [hist EXCEPT ![b].beforeSet = @ + 1]
       /\ IF err # NoErr
          THEN /\ ret' = [ret EXCEPT ![b] =
                            [results |-> NilResults,
                             err |-> Errorf("run before inference set callbacks", at, err)]]
               /\ pc' = [pc EXCEPT ![b] = "returned"]
          ELSE /\ ret' = ret
               /\ pc' = [pc EXCEPT ![b] = "load"]
    /\ UNCHANGED <<in, evalCases, results, idx, held, invokeErr, wg,
                   params, allocated, recycler, worker, svc, opts, pool, rejects,
                   agui, turn>>

\* runBeforeInferenceSetCallbacks and the check of its error in Inference.
InferenceBeforeSet(b) ==
    /\ pc[b] = "beforeSet"
    /\ LET h == opts[b].Callbacks.BeforeInferenceSet
           at == <<in[b].AppName, in[b].EvalSetID>>
           err == IF h.err # NoErr
                  THEN Errorf("run before inference set callbacks", at, h.err) ELSE NoErr
       IN
       /\ ctx' = [ctx EXCEPT ![b] = IF h.ctx # "" THEN @ \o <<h.ctx>> ELSE @]
       /\ req' = [req EXCEPT ![b] = IF h.ids # <<"keep">> THEN h.ids ELSE @]
       /\ hist' = [hist EXCEPT ![b].beforeSet = @ + 1]
       /\ IF err # NoErr
          THEN /\ ret' = [ret EXCEPT ![b] =
                            [results |-> NilResults,
                             err |-> Errorf("run before inference set callbacks", at, err)]]
               /\ pc' = [pc EXCEPT ![b] = "returned"]
          ELSE /\ ret' = ret
               /\ pc' = [pc EXCEPT ![b] = "load"]
    /\ UNCHANGED <<in, evalCases, results, idx, held, invokeErr, wg,
                   params, allocated, recycler, worker, svc, opts, pool, rejects,
                   agui, turn>>

\* Mutant of InferenceLoad: the after-batch callbacks are deferred after
\* the cases are loaded, so the two early returns skip them.
InferenceLoad_deferLater(b) ==
    /\ pc[b] = "load"
    /\ LET l == loadInferenceEvalCases(req[b], in[b].evalSet, in[b].getErr) IN
       /\ hist' = [hist EXCEPT ![b].loads = @ + 1, ![b].loadCtx = ctx[b]]
       /\ evalCases' = [evalCases EXCEPT ![b] = l.evalCases]
       /\ IF l.err # NoErr
          THEN /\ ret' = [ret EXCEPT ![b] = [results |-> NilResults,
                                             err |-> Wrap("load inference eval cases", l.err)]]
               /\ pc' = [pc EXCEPT ![b] = "returned"]
          ELSE IF Len(l.evalCases) = 0
          THEN /\ ret' = [ret EXCEPT ![b] = [results |-> Slice(<<>>), err |-> NoErr]]
               /\ pc' = [pc EXCEPT ![b] = "returned"]
          ELSE /\ ret' = ret
               /\ pc' = [pc EXCEPT ![b] = "infer"]
    /\ UNCHANGED <<in, ctx, req, results, idx, held, invokeErr, wg,
                   params, allocated, recycler, worker, svc, opts, pool, rejects,
                   agui, turn>>

\* loadInferenceEvalCases and the two early returns after it.
InferenceLoad(b) ==
    /\ pc[b] = "load"
    /\ LET l == loadInferenceEvalCases(req[b], in[b].evalSet, in[b].getErr) IN
       /\ hist' = [hist EXCEPT ![b].loads = @ + 1, ![b].loadCtx = ctx[b]]
       /\ evalCases' = [evalCases EXCEPT ![b] = l.evalCases]
       /\ IF l.err # NoErr
          THEN /\ ret' = [ret EXCEPT ![b] = [results |-> NilResults,
                                             err |-> Wrap("load inference eval cases", l.err)]]
               /\ pc' = [pc EXCEPT ![b] = "afterSet"]
          ELSE IF Len(l.evalCases) = 0
          THEN /\ ret' = [ret EXCEPT ![b] = [results |-> Slice(<<>>), err |-> NoErr]]
               /\ pc' = [pc EXCEPT ![b] = "afterSet"]
          ELSE /\ ret' = ret
               /\ pc' = [pc EXCEPT ![b] = "infer"]
    /\ UNCHANGED <<in, ctx, req, results, idx, held, invokeErr, wg,
                   params, allocated, recycler, worker, svc, opts, pool, rejects,
                   agui, turn>>

\* inferEvalCases: the choice of the strategy; for the parallel one the
\* head of inferEvalCasesParallel (ensure the pool, make the results slice).
inferEvalCases(b) ==
    /\ pc[b] = "infer"
    /\ idx' = [idx EXCEPT ![b] = 0]
    /\ IF opts[b].EvalCaseParallelInferenceEnabled
       THEN LET e == ensureEvalCaseInferencePool(svc, pool) IN
            /\ pool' = e
            /\ IF e.err # NoErr
               THEN /\ ret' = [ret EXCEPT ![b] = [results |-> NilResults,
                                                  err |-> Wrap("infer eval cases", e.err)]]
                    /\ pc' = [pc EXCEPT ![b] = "afterSet"]
                    /\ results' = results
               ELSE /\ results' = [results EXCEPT ![b] =
                                     [i \in 1..Len(evalCases[b]) |-> NilResult]]
                    /\ pc' = [pc EXCEPT ![b] = "parAdd"]
                    /\ ret' = ret
       ELSE /\ results' = [results EXCEPT ![b] = <<>>]
            /\ pc' = [pc EXCEPT ![b] = "serial"]
            /\ UNCHANGED <<pool, ret>>
    /\ UNCHANGED <<in, ctx, req, evalCases, held, invokeErr, wg,
                   params, allocated, recycler, worker, svc, opts, rejects, hist,
                   agui, turn>>

\* What the runner answers when called for the case `id` of batch b: the
\* context's error once the caller has cancelled the context of the call.
ErrCanceled == <<"context canceled">>

RunnerAnswer(b, id) == IF in[b].cancelled THEN ErrCanceled ELSE in[b].runner[id]

\* The calls of one more run of a case pipeline added to those recorded.
AddCalls(old, new) ==
    [before |-> old.before + new.before, runner |-> old.runner + new.runner,
     after |-> old.after + new.after, beforeCtx |-> new.beforeCtx, caseCtx |-> new.caseCtx,
     afterArgs |-> new.afterArgs, runOptions |-> new.runOptions]

\* ------------------------------------------------------------ serial strategy
\* Mutant of serialLoopEnds: the loop also ends at the first failed case.
serialLoopEnds_onFailure(b, result) ==
    idx[b] + 1 = Len(evalCases[b]) \/ result.Status = StatusFailed

\* The range loop of inferEvalCasesSerial ends after the iteration that
\* produced `result` when that was the last case.
serialLoopEnds(b, result) == idx[b] + 1 = Len(evalCases[b])

\* One iteration of the loop of inferEvalCasesSerial; after the last one the
\* function returns the list.  A panic of the case's pipeline unwinds the
\* executor up to the deferred function of Inference.
inferEvalCasesSerial(b) ==
    /\ pc[b] = "serial"
    /\ LET evalCase == evalCases[b][idx[b] + 1]
           r == inferenceEvalCase(ctx[b], evalCase, opts[b], RunnerAnswer(b, evalCase.EvalID))
           list == Append(results[b], r.result)
       IN
       IF r.panicked
       THEN /\ hist' = [hist EXCEPT ![b].calls[idx[b] + 1] = AddCalls(@, r.calls)]
            /\ pc' = [pc EXCEPT ![b] = "afterSetPanic"]
            /\ UNCHANGED <<results, idx, ret>>
       ELSE
       /\ results' = [results EXCEPT ![b] = list]
       /\ hist' = [hist EXCEPT ![b].writes[idx[b] + 1] = @ + 1,
                               ![b].calls[idx[b] + 1] = AddCalls(@, r.calls)]
       /\ idx' = [idx EXCEPT ![b] = @ + 1]
       /\ IF serialLoopEnds(b, r.result)
          THEN /\ ret' = [ret EXCEPT ![b] = [results |-> Slice(list), err |-> NoErr]]
               /\ pc' = [pc EXCEPT ![b] = "afterSet"]
          ELSE UNCHANGED <<ret, pc>>
    /\ UNCHANGED <<in, ctx, req, evalCases, held, invokeErr, wg,
                   params, allocated, recycler, worker, svc, opts, pool, rejects,
                   agui, turn>>

\* ------------------------------------------------------------ parallel strategy
\* wg.Add(1) at the head of the loop body.
parallelAdd(b) ==
    /\ pc[b] = "parAdd"
    /\ wgAdd(b, idx[b] + 1)
    /\ pc' = [pc EXCEPT ![b] = "parGet"]
    /\ UNCHANGED <<in, ctx, req, evalCases, results, idx, held, invokeErr, ret,
                   params, allocated, recycler, worker, svc, opts, pool, rejects,
                   agui, turn>>

\* evalCaseInferenceParamPool.Get(): any parameter of the recycler, or a
\* new one from New when the recycler is empty.
FreshParam == IF allocated = ParamIds \/ \E q \in ParamIds : recycler[q] > 0 THEN {}
              ELSE {CHOOSE p \in ParamIds \ allocated : \A q \in ParamIds \ allocated : p <= q}

\* Mutant of fill: every parameter gets the first case of the batch.
fill_firstCase(b) ==
    [idx |-> idx[b], ctx |-> ctx[b], req |-> b, evalCase |-> evalCases[b][1],
     opts |-> b, svc |-> 1, results |-> b, wg |-> b]

\* Mutant of fill: param.idx is not assigned.
fill_noIdx(b) ==
    [idx |-> 0, ctx |-> ctx[b], req |-> b, evalCase |-> evalCases[b][idx[b] + 1],
     opts |-> b, svc |-> 1, results |-> b, wg |-> b]

\* Mutant of fill: the results array and the barrier are those of the first
\* batch of the service.
fill_firstBatch(b) ==
    [idx |-> idx[b], ctx |-> ctx[b], req |-> b, evalCase |-> evalCases[b][idx[b] + 1],
     opts |-> b, svc |-> 1, results |-> 1, wg |-> 1]

\* The eight assignments that fill the parameter for the case of the
\* current iteration.
fill(b) ==
    [idx |-> idx[b], ctx |-> ctx[b], req |-> b, evalCase |-> evalCases[b][idx[b] + 1],
     opts |-> b, svc |-> 1, results |-> b, wg |-> b]

\* Get and the assignments.
parallelGet(b) ==
    /\ pc[b] = "parGet"
    /\ \E p \in {q \in ParamIds : recycler[q] > 0} \cup FreshParam :
         /\ IF recycler[p] > 0
            THEN /\ recycler' = [recycler EXCEPT ![p] = @ - 1]
                 /\ allocated' = allocated
            ELSE /\ allocated' = allocated \cup {p}
                 /\ recycler' = recycler
         /\ params' = [params EXCEPT ![p] = fill(b)]
         /\ held' = [held EXCEPT ![b] = p]
    /\ pc' = [pc EXCEPT ![b] = "parInvoke"]
    /\ UNCHANGED <<in, ctx, req, evalCases, results, idx, invokeErr, wg, ret,
                   worker, svc, opts, pool, rejects, hist,
                   agui, turn>>

\* The end of one iteration of the submission loop: the next case, or
\* wg.Wait() after the last.
NextIteration(b) == IF idx[b] + 1 < Len(evalCases[b]) THEN "parAdd" ELSE "parWait"

\* ants.ErrPoolClosed, the error of a pool that takes no more tasks.
ErrPoolClosed == <<"this pool has been closed">>

\* pool.Invoke(param) returns nil: a worker goroutine of the pool has the
\* parameter.  Invoke blocks while all workers of the pool are running.
parallelInvoke(b) ==
    /\ pc[b] = "parInvoke"
    /\ Cardinality(Busy) < pool.size
    /\ LET w == CHOOSE v \in Workers \ Busy : \A u \in Workers \ Busy : v <= u IN
       worker' = [worker EXCEPT ![w] = [IdleWorker EXCEPT !.pc = "run", !.param = held[b],
                                                         !.task = <<b, idx[b] + 1>>]]
    /\ held' = [held EXCEPT ![b] = 0]
    /\ idx' = [idx EXCEPT ![b] = @ + 1]
    /\ pc' = [pc EXCEPT ![b] = NextIteration(b)]
    /\ UNCHANGED <<in, ctx, req, evalCases, results, invokeErr, wg, ret,
                   params, allocated, recycler, svc, opts, pool, rejects, hist,
                   agui, turn>>

\* pool.Invoke(param) returns an error: the executor keeps the parameter.
parallelInvokeRejected(b) ==
    /\ pc[b] = "parInvoke"
    /\ rejects < MaxRejects
    /\ rejects' = rejects + 1
    /\ invokeErr' = [invokeErr EXCEPT ![b] = ErrPoolClosed]
    /\ hist' = [hist EXCEPT ![b].rejected = @ \cup {idx[b] + 1}]
    /\ pc' = [pc EXCEPT ![b] = "parRejDone"]
    /\ UNCHANGED <<in, ctx, req, evalCases, results, idx, held, wg, ret,
                   params, allocated, recycler, worker, svc, opts, pool,
                   agui, turn>>

\* Mutant of parallelRejectDone: the rejection branch does not signal.
parallelRejectDone_missing(b) ==
    /\ pc[b] = "parRejDone"
    /\ pc' = [pc EXCEPT ![b] = "parRejWrite"]
    /\ UNCHANGED <<in, ctx, req, evalCases, results, idx, held, invokeErr, ret, wg, hist,
                   params, allocated, recycler, worker, svc, opts, pool, rejects,
                   agui, turn>>

\* The rejection branch, statement by statement: wg.Done()
parallelRejectDone(b) ==
    /\ pc[b] = "parRejDone"
    /\ wgDone(b, idx[b] + 1, "executor")
    /\ pc' = [pc EXCEPT ![b] = "parRejWrite"]
    /\ UNCHANGED <<in, ctx, req, evalCases, results, idx, held, invokeErr, ret,
                   params, allocated, recycler, worker, svc, opts, pool, rejects,
                   agui, turn>>

\* Mutant of parallelRejectWrite: the rejected case gets no result.
parallelRejectWrite_omitted(b) ==
    /\ pc[b] = "parRejWrite"
    /\ pc' = [pc EXCEPT ![b] = "parRejReset"]
    /\ UNCHANGED <<in, ctx, req, evalCases, idx, held, invokeErr, wg, ret, results, hist,
                   params, allocated, recycler, worker, svc, opts, pool, rejects,
                   agui, turn>>

\* results[idx] = newFailedInferenceResult(newInferenceResult(...), submit error)
parallelRejectWrite(b) ==
    /\ pc[b] = "parRejWrite"
    /\ LET evalCase == evalCases[b][idx[b] + 1]
           sessionID == SessionIDSupplier(opts[b], ctx[b])
       IN results' = [results EXCEPT ![b][idx[b] + 1] =
                        newFailedInferenceResult(
                            newInferenceResult(sessionID, evalCase),
                            <<"submit inference task for eval case", evalCase.EvalID>>
                                \o invokeErr[b])]
    /\ hist' = [hist EXCEPT ![b].writes[idx[b] + 1] = @ + 1]
    /\ pc' = [pc EXCEPT ![b] = "parRejReset"]
    /\ UNCHANGED <<in, ctx, req, evalCases, idx, held, invokeErr, wg, ret,
                   params, allocated, recycler, worker, svc, opts, pool, rejects,
                   agui, turn>>

\* param.reset()
parallelRejectReset(b) ==
    /\ pc[b] = "parRejReset"
    /\ params' = [params EXCEPT ![held[b]] = reset(@)]
    /\ pc' = [pc EXCEPT ![b] = "parRejPut"]
    /\ UNCHANGED <<in, ctx, req, evalCases, results, idx, held, invokeErr, wg, ret,
                   allocated, recycler, worker, svc, opts, pool, rejects, hist,
                   agui, turn>>

\* Mutant of parallelRejectPut: the rejection branch drops the parameter
\* instead of putting it back.
parallelRejectPut_dropped(b) ==
    /\ pc[b] = "parRejPut"
    /\ UNCHANGED <<recycler, hist>>
    /\ held' = [held EXCEPT ![b] = 0]
    /\ invokeErr' = [invokeErr EXCEPT ![b] = NoErr]
    /\ idx' = [idx EXCEPT ![b] = @ + 1]
    /\ pc' = [pc EXCEPT ![b] = NextIteration(b)]
    /\ UNCHANGED <<in, ctx, req, evalCases, results, wg, ret,
                   params, allocated, worker, svc, opts, pool, rejects,
                   agui, turn>>

\* evalCaseInferenceParamPool.Put(param), and the loop goes on
parallelRejectPut(b) ==
    /\ pc[b] = "parRejPut"
    /\ recycler' = [recycler EXCEPT ![held[b]] = @ + 1]
    /\ hist' = [hist EXCEPT ![b].puts[idx[b] + 1] = @ + 1,
                            ![b].dirtyPuts = IF params[held[b]] # ZeroParam THEN @ + 1 ELSE @]
    /\ held' = [held EXCEPT ![b] = 0]
    /\ invokeErr' = [invokeErr EXCEPT ![b] = NoErr]
    /\ idx' = [idx EXCEPT ![b] = @ + 1]
    /\ pc' = [pc EXCEPT ![b] = NextIteration(b)]
    /\ UNCHANGED <<in, ctx, req, evalCases, results, wg, ret,
                   params, allocated, worker, svc, opts, pool, rejects,
                   agui, turn>>

\* Mutant of parallelWait: the executor returns without waiting.
parallelWait_noWait(b) ==
    /\ pc[b] = "parWait"
    /\ ret' = [ret EXCEPT ![b] = [results |-> Slice(results[b]), err |-> NoErr]]
    /\ pc' = [pc EXCEPT ![b] = "afterSet"]
    /\ UNCHANGED <<in, ctx, req, evalCases, results, idx, held, invokeErr, wg,
                   params, allocated, recycler, worker, svc, opts, pool, rejects, hist,
                   agui, turn>>

\* wg.Wait() returns once the counter is zero; inferEvalCasesParallel
\* returns the results slice and a nil error.
parallelWait(b) ==
    /\ pc[b] = "parWait"
    /\ wg[b] = 0
    /\ ret' = [ret EXCEPT ![b] = [results |-> Slice(results[b]), err |-> NoErr]]
    /\ pc' = [pc EXCEPT ![b] = "afterSet"]
    /\ UNCHANGED <<in, ctx, req, evalCases, results, idx, held, invokeErr, wg,
                   params, allocated, recycler, worker, svc, opts, pool, rejects, hist,
                   agui, turn>>

\* ------------------------------------------------------------ pool workers
\* Mutant of workerRun: a panic of the pipeline ends the worker's task at
\* once, no deferred function runs.
workerRun_noDefer(w) ==
    /\ worker[w].pc = "run"
    /\ LET p == params[worker[w].param] IN
       IF p.opts = 0 \/ p.req = 0 \/ p.svc = 0
       THEN /\ worker' = [worker EXCEPT ![w].pc = "done", ![w].wg = p.wg]
            /\ hist' = hist
       ELSE LET r == inferenceEvalCase(p.ctx, p.evalCase, opts[p.opts],
                                       RunnerAnswer(p.req, p.evalCase.EvalID))
            IN IF r.panicked
               THEN /\ worker' = [worker EXCEPT ![w] = IdleWorker]
                    /\ hist' = [hist EXCEPT ![worker[w].task[1]].calls[worker[w].task[2]] =
                                                AddCalls(@, r.calls)]
               ELSE /\ worker' = [worker EXCEPT ![w].pc = "write", ![w].wg = p.wg,
                                                ![w].result = r.result, ![w].calls = r.calls]
                    /\ hist' = hist
    /\ UNCHANGED <<in, pc, ctx, req, evalCases, results, idx, held, invokeErr, wg, ret,
                   params, allocated, recycler, svc, opts, pool, rejects,
                   agui, turn>>

\* Mutant of workerRun: the worker signals the barrier as soon as the
\* pipeline has returned, before it writes the result.
workerRun_signalsFirst(w) ==
    /\ worker[w].pc = "run"
    /\ LET p == params[worker[w].param] IN
       IF p.opts = 0 \/ p.req = 0 \/ p.svc = 0
       THEN /\ worker' = [worker EXCEPT ![w].pc = "done", ![w].wg = p.wg]
            /\ UNCHANGED <<wg, hist>>
       ELSE LET r == inferenceEvalCase(p.ctx, p.evalCase, opts[p.opts],
                                       RunnerAnswer(p.req, p.evalCase.EvalID))
            IN IF r.panicked
               THEN /\ worker' = [worker EXCEPT ![w].pc = "done", ![w].wg = p.wg]
                    /\ hist' = [hist EXCEPT ![worker[w].task[1]].calls[worker[w].task[2]] =
                                                AddCalls(@, r.calls)]
                    /\ wg' = wg
               ELSE /\ worker' = [worker EXCEPT ![w].pc = "write", ![w].wg = 0,
                                                ![w].result = r.result, ![w].calls = r.calls]
                    /\ wgDone(p.wg, worker[w].task[2], "worker")
    /\ UNCHANGED <<in, pc, ctx, req, evalCases, results, idx, held, invokeErr, ret,
                   params, allocated, recycler, svc, opts, pool, rejects,
                   agui, turn>>

\* The function createEvalCaseInferencePool gives the pool, run by worker w
\* on the parameter it was handed.  First `wg := param.wg` and the call of
\* inferenceEvalCase on the parameter's fields; a nil options reference
\* panics, and so may the pipeline: the assignment to the slot is skipped
\* and the deferred function runs next.
workerRun(w) ==
    /\ worker[w].pc = "run"
    /\ LET p == params[worker[w].param] IN
       IF p.opts = 0 \/ p.req = 0 \/ p.svc = 0
       THEN /\ worker' = [worker EXCEPT ![w].pc = "done", ![w].wg = p.wg]
            /\ hist' = hist
       ELSE LET r == inferenceEvalCase(p.ctx, p.evalCase, opts[p.opts],
                                       RunnerAnswer(p.req, p.evalCase.EvalID))
            IN IF r.panicked
               THEN /\ worker' = [worker EXCEPT ![w].pc = "done", ![w].wg = p.wg]
                    /\ hist' = [hist EXCEPT ![worker[w].task[1]].calls[worker[w].task[2]] =
                                                AddCalls(@, r.calls)]
               ELSE /\ worker' = [worker EXCEPT ![w].pc = "write", ![w].wg = p.wg,
                                                ![w].result = r.result, ![w].calls = r.calls]
                    /\ hist' = hist
    /\ UNCHANGED <<in, pc, ctx, req, evalCases, results, idx, held, invokeErr, wg, ret,
                   params, allocated, recycler, svc, opts, pool, rejects,
                   agui, turn>>

\* Mutant of slotOf: the worker stores its result at the first empty slot,
\* that is, in completion order.
slotOf_completionOrder(p) ==
    IF \E i \in 1..Len(results[p.results]) : results[p.results][i].isNilResult
    THEN CHOOSE i \in 1..Len(results[p.results]) :
            /\ results[p.results][i].isNilResult
            /\ \A j \in 1..(i - 1) : ~results[p.results][j].isNilResult
    ELSE p.idx + 1

\* The slot `param.results[param.idx]` designates.
slotOf(p) == p.idx + 1

\* Mutant of workerWrite: a failed result is not stored.
workerWrite_skipsFailed(w) ==
    /\ worker[w].pc = "write"
    /\ LET p == params[worker[w].param] IN
       IF p.results = 0 \/ slotOf(p) > Len(results[p.results])
          \/ worker[w].result.Status = StatusFailed
       THEN UNCHANGED <<results, hist>>
       ELSE /\ results' = [results EXCEPT ![p.results][slotOf(p)] = worker[w].result]
            /\ hist' = [hist EXCEPT ![p.results].writes[slotOf(p)] = @ + 1,
                                    ![p.results].calls[slotOf(p)] = AddCalls(@, worker[w].calls),
                                    ![p.results].overtaken =
                                        @ \/ \E i \in 1..(slotOf(p) - 1) :
                                                results[p.results][i].isNilResult]
    /\ worker' = [worker EXCEPT ![w].pc = "done"]
    /\ UNCHANGED <<in, pc, ctx, req, evalCases, idx, held, invokeErr, wg, ret,
                   params, allocated, recycler, svc, opts, pool, rejects,
                   agui, turn>>

\* param.results[param.idx] = <the result>; a nil results slice panics.
workerWrite(w) ==
    /\ worker[w].pc = "write"
    /\ LET p == params[worker[w].param] IN
       IF p.results = 0 \/ slotOf(p) > Len(results[p.results])
       THEN UNCHANGED <<results, hist>>
       ELSE /\ results' = [results EXCEPT ![p.results][slotOf(p)] = worker[w].result]
            /\ hist' = [hist EXCEPT ![p.results].writes[slotOf(p)] = @ + 1,
                                    ![p.results].calls[slotOf(p)] = AddCalls(@, worker[w].calls),
                                    ![p.results].overtaken =
                                        @ \/ \E i \in 1..(slotOf(p) - 1) :
                                                results[p.results][i].isNilResult]
    /\ worker' = [worker EXCEPT ![w].pc = "done"]
    /\ UNCHANGED <<in, pc, ctx, req, evalCases, idx, held, invokeErr, wg, ret,
                   params, allocated, recycler, svc, opts, pool, rejects,
                   agui, turn>>

\* The deferred function: wg.Done() on the WaitGroup read at the start
workerDone(w) ==
    /\ worker[w].pc = "done"
    /\ IF worker[w].wg = 0
       THEN UNCHANGED <<wg, hist>>
       ELSE wgDone(worker[w].wg, worker[w].task[2], "worker")
    /\ worker' = [worker EXCEPT ![w].pc = "reset"]
    /\ UNCHANGED <<in, pc, ctx, req, evalCases, results, idx, held, invokeErr, ret,
                   params, allocated, recycler, svc, opts, pool, rejects,
                   agui, turn>>

\* param.reset()
workerReset(w) ==
    /\ worker[w].pc = "reset"
    /\ params' = [params EXCEPT ![worker[w].param] = reset(@)]
    /\ worker' = [worker EXCEPT ![w].pc = "put"]
    /\ UNCHANGED <<in, pc, ctx, req, evalCases, results, idx, held, invokeErr, wg, ret,
                   allocated, recycler, svc, opts, pool, rejects, hist,
                   agui, turn>>

\* evalCaseInferenceParamPool.Put(param); the worker is free again.
workerPut(w) ==
    /\ worker[w].pc = "put"
    /\ recycler' = [recycler EXCEPT ![worker[w].param] = @ + 1]
    /\ hist' = [hist EXCEPT ![worker[w].task[1]].puts[worker[w].task[2]] = @ + 1,
                            ![worker[w].task[1]].dirtyPuts =
                                IF params[worker[w].param] # ZeroParam THEN @ + 1 ELSE @]
    /\ worker' = [worker EXCEPT ![w] = IdleWorker]
    /\ UNCHANGED <<in, pc, ctx, req, evalCases, results, idx, held, invokeErr, wg, ret,
                   params, allocated, svc, opts, pool, rejects,
                   agui, turn>>

\* ------------------------------------------------------------ after-batch
\* The deferred function of Inference: runAfterInferenceSetCallbacks on the
\* results and the error about to be returned, then the return; when a
\* panic unwinds the call, the panic goes on to the caller instead.
runAfterInferenceSetCallbacks(callbacks, r) ==
    IF callbacks.AfterInferenceSet # NoErr
    THEN Errorf("run after inference set callbacks", <<r.AppName, r.EvalSetID>>,
                callbacks.AfterInferenceSet)
    ELSE NoErr

\* Mutant of InferenceAfterSet: a failing after-batch callback replaces the
\* error only, the results stay.
InferenceAfterSet_keepsResults(b) ==
    /\ pc[b] \in {"afterSet", "afterSetPanic"}
    /\ LET afterErr == runAfterInferenceSetCallbacks(opts[b].Callbacks, in[b]) IN
       /\ ret' = [ret EXCEPT ![b] = IF afterErr # NoErr /\ pc[b] = "afterSet"
                                    THEN [results |-> @.results, err |-> afterErr]
                                    ELSE @]
       /\ hist' = [hist EXCEPT ![b].afterSet = @ + 1,
                               ![b].afterSetArgs = [ctx |-> ctx[b], Results |-> ret[b].results,
                                                    Error |-> ret[b].err]]
    /\ pc' = [pc EXCEPT ![b] = IF pc[b] = "afterSet" THEN "returned" ELSE "panicked"]
    /\ UNCHANGED <<in, ctx, req, evalCases, results, idx, held, invokeErr, wg,
                   params, allocated, recycler, worker, svc, opts, pool, rejects,
                   agui, turn>>

InferenceAfterSet(b) ==
    /\ pc[b] \in {"afterSet", "afterSetPanic"}
    /\ LET afterErr == runAfterInferenceSetCallbacks(opts[b].Callbacks, in[b]) IN
       /\ ret' = [ret EXCEPT ![b] = IF afterErr # NoErr /\ pc[b] = "afterSet"
                                    THEN [results |-> NilResults, err |-> afterErr]
                                    ELSE @]
       /\ hist' = [hist EXCEPT ![b].afterSet = @ + 1,
                               ![b].afterSetArgs = [ctx |-> ctx[b], Results |-> ret[b].results,
                                                    Error |-> ret[b].err]]
    /\ pc' = [pc EXCEPT ![b] = IF pc[b] = "afterSet" THEN "returned" ELSE "panicked"]
    /\ UNCHANGED <<in, ctx, req, evalCases, results, idx, held, invokeErr, wg,
                   params, allocated, recycler, worker, svc, opts, pool, rejects,
                   agui, turn>>

\* ------------------------------------------------------------ inputs
\* The ids of the cases of the eval set, in eval-set order.
CaseIdOf(i) == <<"c1", "c2", "c3", "c4", "c5", "c6">>[i]
CaseIds == {CaseIdOf(i) : i \in 1..MaxCases} \cup {""}

\* A case of each kind, with what the case callbacks and the runner answer
\* for it: ok (live, the runner answers), runnerErr (live, the runner
\* fails), empty (live, no turn), nosession (no session input), beforeErr /
\* afterErr (the before-case / after-case callback fails), bothErr (the
\* runner and the after-case callback fail), panic (live, the runner
\* panics), trace, nil (a nil case in the eval set).
KindCase(id, k) ==
    IF k = "nil" THEN NilEvalCase ELSE
    EvalCase(id,
             IF k = "trace" THEN EvalModeTrace ELSE EvalModeDefault,
             IF k = "empty" THEN <<>> ELSE <<"u1">>,
             <<>>,
             IF k = "nosession" THEN NilSessionInput ELSE SessionInputOf("user"),
             <<>>)

KindBefore(id, k) ==
    [err |-> IF k = "beforeErr" THEN <<"before inference case failed">> ELSE NoErr,
     ctx |-> id]

KindAfter(k) ==
    IF k \in {"afterErr", "bothErr"} THEN <<"after inference case failed">> ELSE NoErr

KindRunner(k) ==
    IF k = "panic" THEN RunnerPanic
    ELSE IF k \in {"runnerErr", "bothErr"} THEN <<"boom">> ELSE NoErr

\* What the before-batch callback does: nothing, fail, narrow the request
\* to case c2 or to an id no case has, or return a new context.
BeforeSetHook(k) ==
    [err |-> IF k = "err" THEN <<"before inference set failed">> ELSE NoErr,
     ctx |-> IF k = "ctx" THEN "set" ELSE "",
     ids |-> IF k = "filter" THEN <<"c2">>
             ELSE IF k = "drop" THEN <<"none">> ELSE <<"keep">>]

AfterSetHook(k) == IF k = "err" THEN <<"after inference set failed">> ELSE NoErr

\* The callback set built from the answers of its hooks; kinds gives the
\* kind of the case at each position of the eval set.
CallbacksOf(kinds, bset, aset) ==
    LET kindOf(id) == IF \E i \in 1..Len(kinds) : CaseIdOf(i) = id
                      THEN kinds[CHOOSE i \in 1..Len(kinds) : CaseIdOf(i) = id]
                      ELSE "ok"
    IN [BeforeInferenceSet |-> BeforeSetHook(bset),
        AfterInferenceSet |-> AfterSetHook(aset),
        BeforeInferenceCase |-> [id \in CaseIds |-> KindBefore(id, kindOf(id))],
        AfterInferenceCase |-> [id \in CaseIds |-> KindAfter(kindOf(id))]]

RunnerOf(kinds) ==
    [id \in CaseIds |-> IF \E i \in 1..Len(kinds) : CaseIdOf(i) = id
                        THEN KindRunner(kinds[CHOOSE i \in 1..Len(kinds) : CaseIdOf(i) = id])
                        ELSE NoErr]

EvalSetOf(kinds) == [i \in 1..Len(kinds) |-> KindCase(CaseIdOf(i), kinds[i])]

\* One call of Inference: the request's case ids, the option arguments, the
\* eval set and the error of the manager's Get, the runner's answers.
\* after: the call the caller waits for before it makes this one (it makes
\* it once that call has returned and the pool's workers are at rest), 0 if
\* it waits for none.  cancelled: the caller has cancelled the context it
\* gave the call.
CallInput(kinds, ids, opt, getErr, after) ==
    [AppName |-> "app", EvalSetID |-> "set",
     EvalCaseIDs |-> ids, opt |-> opt, evalSet |-> EvalSetOf(kinds), getErr |-> getErr,
     runner |-> RunnerOf(kinds), kinds |-> kinds, after |-> after, cancelled |-> FALSE]

NoCall == CallInput(<<>>, <<>>, <<>>, NoErr, 0)

\* service.WithCallbacks(cb) as an option argument.
WithCallbacks(cb) == [set |-> {"Callbacks"}, val |-> [NilOptions EXCEPT !.Callbacks = cb]]

\* service.WithEvalCaseParallelInferenceEnabled(v) as an option argument.
WithEvalCaseParallelInferenceEnabled(v) ==
    [set |-> {"EvalCaseParallelInferenceEnabled"},
     val |-> [NilOptions EXCEPT !.EvalCaseParallelInferenceEnabled = v]]

\* service.WithEvalSetManager(m), service.WithSessionIDSupplier(f) and
\* service.WithEvalCaseParallelism(n) as option arguments ("nil" is the nil
\* manager and the nil supplier).
WithEvalSetManager(m) ==
    [set |-> {"EvalSetManager"}, val |-> [NilOptions EXCEPT !.EvalSetManager = m]]

WithSessionIDSupplier(f) ==
    [set |-> {"SessionIDSupplier"}, val |-> [NilOptions EXCEPT !.SessionIDSupplier = f]]

WithEvalCaseParallelism(n) ==
    [set |-> {"EvalCaseParallelism"}, val |-> [NilOptions EXCEPT !.EvalCaseParallelism = n]]

\* Options a caller writes for the run-option list: o.RunOptions = ro;
\* o.RunOptions = append(o.RunOptions, ro...); o.RunOptions[0] = r if the
\* list has an element.
ReplaceRunOptions(ro) == [set |-> {"RunOptions"}, val |-> [NilOptions EXCEPT !.RunOptions = ro]]
ExtendRunOptions(ro) == [set |-> {"RunOptions+"}, val |-> [NilOptions EXCEPT !.RunOptions = ro]]
SetFirstRunOption(r) == [set |-> {"RunOptions[1]"}, val |-> [NilOptions EXCEPT !.RunOptions = <<r>>]]

\* The service as New leaves it.
Service(parallel, parallelism, cb) ==
    [evalSetManager |-> "mgr", sessionIDSupplier |-> "default-session", callbacks |-> cb,
     runOptions |-> <<>>, evalCaseParallelism |-> parallelism,
     evalCaseParallelInferenceEnabled |-> parallel]

\* The context the caller gives Inference.
Background == <<"ctx">>

\* ------------------------------------------------------------ AG-UI runner
\* The AG-UI events the runner itself makes, and the j-th event the
\* translator makes of the k-th agent event.
RunStartedEvent == [type |-> "RUN_STARTED", message |-> "", k |-> 0, j |-> 0]
RunErrorEvent(msg) == [type |-> "RUN_ERROR", message |-> msg, k |-> 0, j |-> 0]
TranslatedEvent(k, j) == [type |-> "TRANSLATED", message |-> "", k |-> k, j |-> j]

\* The k-th event of the agent's stream; its kind says what the translator
\* makes of it: no AG-UI event, one, two, or an error.
AgentEvent(k, kind) == [k |-> k, kind |-> kind]
AgentEventKinds == {"none", "one", "two", "err"}

\* translator.Translate(event): the AG-UI events of the agent event, or an
\* error.
Translate(event) ==
    [events |-> CASE event.kind = "one" -> <<TranslatedEvent(event.k, 1)>>
                  [] event.kind = "two" -> <<TranslatedEvent(event.k, 1), TranslatedEvent(event.k, 2)>>
                  [] OTHER -> <<>>,
     err |-> IF event.kind = "err" THEN <<"bad event">> ELSE NoErr]

\* The input of one AG-UI run and the behaviour of its collaborators:
\* the roles of runAgentInput.Messages, what the user-id resolver and the
\* underlying runner's Run return, when the underlying runner tells the span
\* observer of its context (before Run returns, later, or never), and the
\* kinds of the events of the agent's stream.
RunInput(messages, resolver, run, observes, kinds) ==
    [messages |-> messages, resolver |-> resolver, run |-> run, observes |-> observes,
     stream |-> [k \in 1..Len(kinds) |-> AgentEvent(k, kinds[k])]]

\* No AG-UI run.  pc: the position of the goroutine of run; pending: the
\* AG-UI events run is about to send; next: where it goes after sending
\* them; events, closed: what the events channel has delivered and whether
\* it is closed; ch, chClosed, emitted: the agent's stream; observed: the
\* value is in parentCtxCh; cancelled: ctx is done; resolverCalls,
\* runnerCalls, translated: the calls of the collaborators; failed: the
\* tracker's flag.
NoRun ==
    [pc |-> "off", input |-> RunInput(<<>>, "ok", "ok", "never", <<>>),
     pending |-> <<>>, next |-> "", events |-> <<>>, closed |-> FALSE,
     ch |-> <<>>, chClosed |-> FALSE, emitted |-> 0,
     observed |-> FALSE, cancelled |-> FALSE,
     resolverCalls |-> 0, runnerCalls |-> 0, translated |-> <<>>, failed |-> FALSE]

\* runner.Run with a runner and an input: the channel is made and the
\* goroutine of run is started.
RunOf(input) == [NoRun EXCEPT !.pc = "start", !.input = input]

\* The variables of the evaluation service, which an AG-UI run leaves alone.
serviceVars == <<in, pc, ctx, req, evalCases, results, idx, held, invokeErr, wg, ret,
                 params, allocated, recycler, worker, svc, opts, pool, rejects, hist>>

\* run sends the events `evts` and goes on at `next`.
sendThen(evts, next) ==
    IF evts = <<>> THEN [agui EXCEPT !.pc = next]
    ELSE [agui EXCEPT !.pc = "send", !.pending = evts, !.next = next]

\* events <- NewRunStartedEvent(...), after the translator was made.
runStarted ==
    /\ agui.pc = "start"
    /\ agui' = sendThen(<<RunStartedEvent>>, "messages")
    /\ UNCHANGED <<serviceVars, turn>>

\* if len(runAgentInput.Messages) == 0 { events <- RunError; return }
runMessages ==
    /\ agui.pc = "messages"
    /\ agui' = IF Len(agui.input.messages) = 0
               THEN sendThen(<<RunErrorEvent("no messages provided")>>, "return")
               ELSE [agui EXCEPT !.pc = "resolve"]
    /\ UNCHANGED <<serviceVars, turn>>

\* userID, err := r.userIDResolver(ctx, runAgentInput)
runResolve ==
    /\ agui.pc = "resolve"
    /\ LET called == [agui EXCEPT !.resolverCalls = @ + 1] IN
       agui' = IF agui.input.resolver = "err"
               THEN [sendThen(<<RunErrorEvent("resolve user ID: boom")>>, "return")
                        EXCEPT !.resolverCalls = called.resolverCalls]
               ELSE [called EXCEPT !.pc = "last"]
    /\ UNCHANGED <<serviceVars, turn>>

\* Mutant of runLast: the role of the last message is not looked at.
runLast_roleUnchecked ==
    /\ agui.pc = "last"
    /\ agui' = [agui EXCEPT !.pc = "run"]
    /\ UNCHANGED <<serviceVars, turn>>

\* userMessage := the last message; if its role is not user, RunError and
\* return.
runLast ==
    /\ agui.pc = "last"
    /\ agui' = IF agui.input.messages[Len(agui.input.messages)] # "user"
               THEN sendThen(<<RunErrorEvent("last message is not a user message")>>, "return")
               ELSE [agui EXCEPT !.pc = "run"]
    /\ UNCHANGED <<serviceVars, turn>>

\* ch, err := r.runner.Run(ctxWithObserver, ...): the underlying runner may
\* tell the observer of its context before it returns.
runRunner ==
    /\ agui.pc = "run"
    /\ LET called == [agui EXCEPT !.runnerCalls = @ + 1,
                                  !.observed = (agui.input.observes = "sync")] IN
       agui' = IF agui.input.run = "err"
               THEN [sendThen(<<RunErrorEvent("run agent: fail")>>, "return")
                        EXCEPT !.runnerCalls = called.runnerCalls,
                               !.observed = called.observed]
               ELSE [called EXCEPT !.pc = "select"]
    /\ UNCHANGED <<serviceVars, turn>>

\* select { case parentCtx = <-parentCtxCh: case <-ctx.Done(): }: run waits
\* for the observer's context or for the end of ctx.
runSelect ==
    /\ agui.pc = "select"
    /\ agui.observed \/ agui.cancelled
    /\ agui' = [agui EXCEPT !.pc = "range"]
    /\ UNCHANGED <<serviceVars, turn>>

\* Mutant of runRange: after a failed translation the loop goes on.
runRange_goesOn ==
    /\ agui.pc = "range"
    /\ IF agui.ch # <<>>
       THEN LET event == Head(agui.ch)
                t == Translate(event)
                taken == [agui EXCEPT !.ch = Tail(@), !.translated = Append(@, event)] IN
            agui' = IF t.err # NoErr
                    THEN [sendThen(<<RunErrorEvent("translate event: bad event")>>, "range")
                             EXCEPT !.ch = taken.ch, !.translated = taken.translated,
                                    !.failed = TRUE]
                    ELSE [sendThen(t.events, "range")
                             EXCEPT !.ch = taken.ch, !.translated = taken.translated]
       ELSE /\ agui.chClosed
            /\ agui' = [agui EXCEPT !.pc = "return"]
    /\ UNCHANGED <<serviceVars, turn>>

\* for event := range ch: one turn of the loop up to its first send, or the
\* end of the loop when ch is closed and empty (tracker.Complete).  A failed
\* translation is recorded, reported by a RunError, and run returns.
runRange ==
    /\ agui.pc = "range"
    /\ IF agui.ch # <<>>
       THEN LET event == Head(agui.ch)
                t == Translate(event)
                taken == [agui EXCEPT !.ch = Tail(@), !.translated = Append(@, event)] IN
            agui' = IF t.err # NoErr
                    THEN [sendThen(<<RunErrorEvent("translate event: bad event")>>, "return")
                             EXCEPT !.ch = taken.ch, !.translated = taken.translated,
                                    !.failed = TRUE]
                    ELSE [sendThen(t.events, "range")
                             EXCEPT !.ch = taken.ch, !.translated = taken.translated]
       ELSE /\ agui.chClosed
            /\ agui' = [agui EXCEPT !.pc = "return"]
    /\ UNCHANGED <<serviceVars, turn>>

\* events <- e on the unbuffered channel: the send and the caller's receive
\* are one step.
runSend ==
    /\ agui.pc = "send"
    /\ agui' = [agui EXCEPT !.events = Append(@, Head(agui.pending)),
                            !.pending = Tail(@),
                            !.pc = IF Len(agui.pending) = 1 THEN agui.next ELSE "send"]
    /\ UNCHANGED <<serviceVars, turn>>

\* run returns: the deferred close(events) (after tracker.Close and the
\* ends of the spans, if they were deferred).
runReturn ==
    /\ agui.pc = "return"
    /\ agui' = [agui EXCEPT !.pc = "done", !.closed = TRUE]
    /\ UNCHANGED <<serviceVars, turn>>

\* The agent, once the underlying runner has accepted the run, emits the
\* next event of its stream.
agentEmit ==
    /\ agui.runnerCalls = 1 /\ agui.input.run = "ok"
    /\ agui.emitted < Len(agui.input.stream)
    /\ agui' = [agui EXCEPT !.emitted = @ + 1,
                            !.ch = Append(@, agui.input.stream[agui.emitted + 1])]
    /\ UNCHANGED <<serviceVars, turn>>

\* The agent closes its stream after its last event.
agentClose ==
    /\ agui.runnerCalls = 1 /\ agui.input.run = "ok"
    /\ agui.emitted = Len(agui.input.stream) /\ ~agui.chClosed
    /\ agui' = [agui EXCEPT !.chClosed = TRUE]
    /\ UNCHANGED <<serviceVars, turn>>

\* The underlying runner tells the observer of its context after Run has
\* returned: the observer's non-blocking send into parentCtxCh.
agentObserve ==
    /\ agui.runnerCalls = 1 /\ agui.input.run = "ok"
    /\ agui.input.observes = "later" /\ ~agui.observed
    /\ agui' = [agui EXCEPT !.observed = TRUE]
    /\ UNCHANGED <<serviceVars, turn>>

\* The caller cancels the context of the run.
aguiCancel ==
    /\ agui.pc \notin {"off", "done"} /\ ~agui.cancelled
    /\ agui' = [agui EXCEPT !.cancelled = TRUE]
    /\ UNCHANGED <<serviceVars, turn>>

\* ------------------------------------------------------------ one turn
\* The k-th event of the stream of one runner call, as inferenceInvocation
\* looks at it.  kind: "nil" (a nil event), "error" (e.Error is set),
\* "final" and "finalEmpty" (a final response, with one choice and with
\* none), "call" (a tool-call response whose tool calls have the ids
\* `ids`), "result" (a tool-result response whose choices carry the tool ids
\* `ids`), "other" (anything else, with no invocation id).
StreamEvent(k, kind, ids) ==
    [k |-> k, kind |-> kind, ids |-> ids,
     InvocationID |-> IF kind \in {"nil", "other"} THEN "" ELSE "run-1"]

\* e.IsFinalResponse(), e.IsToolCallResponse(), e.IsToolResultResponse().
IsFinalResponse(e) == e.kind \in {"final", "finalEmpty"}
IsToolCallResponse(e) == e.kind = "call"
IsToolResultResponse(e) == e.kind = "result"

ToolIDs == {"t1", "t2"}

\* An *evalset.Tool of the trace: Result is 0 (nil) or the number of the
\* event whose content was parsed into it.
ToolOf(id) == [ID |-> id, Result |-> 0]

\* convertTools(e): one tool per tool call of the event, in order.
convertTools(e) == [i \in 1..Len(e.ids) |-> ToolOf(e.ids[i])]

\* The loop over toolcalls: tools = append(tools, toolcall);
\* toolIDIdx[toolcall.ID] = len(tools) - 1 (kept here as the TLA+ index).
RECURSIVE appendTools(_, _, _)
appendTools(toolcalls, tools, toolIDIdx) ==
    IF toolcalls = <<>> THEN [tools |-> tools, toolIDIdx |-> toolIDIdx]
    ELSE LET t == Head(toolcalls) IN
         appendTools(Tail(toolcalls), Append(tools, t),
                     [toolIDIdx EXCEPT ![t.ID] = Len(tools) + 1])

\* Mutant of mergeToolResultResponse: a result whose tool id is not in the
\* index is skipped.
RECURSIVE mergeToolResultResponse_unknownSkipped(_, _, _, _)
mergeToolResultResponse_unknownSkipped(e, n, toolIDIdx, tools) ==
    IF n > Len(e.ids) THEN [tools |-> tools, err |-> NoErr]
    ELSE IF toolIDIdx[e.ids[n]] = 0
         THEN mergeToolResultResponse_unknownSkipped(e, n + 1, toolIDIdx, tools)
         ELSE mergeToolResultResponse_unknownSkipped(e, n + 1, toolIDIdx,
                  [tools EXCEPT ![toolIDIdx[e.ids[n]]].Result = e.k])

\* mergeToolResultResponse(e, toolIDIdx, tools) from the n-th choice of e
\* on: the result of each choice is written into the tool its id is indexed
\* to; a choice whose id is not in the index ends the merge with an error,
\* the results of the choices before it stay written.
RECURSIVE mergeToolResultResponse(_, _, _, _)
mergeToolResultResponse(e, n, toolIDIdx, tools) ==
    IF n > Len(e.ids) THEN [tools |-> tools, err |-> NoErr]
    ELSE IF toolIDIdx[e.ids[n]] = 0
         THEN [tools |-> tools,
               err |-> <<"tool ID not found in tool ID index for tool result response">>]
         ELSE mergeToolResultResponse(e, n + 1, toolIDIdx,
                  [tools EXCEPT ![toolIDIdx[e.ids[n]]].Result = e.k])

\* The input of one call of inferenceInvocation: whether the invocation has
\* user content, what r.Run returns, and the events of its stream.
TurnInput(hasUserContent, run, stream) ==
    [hasUserContent |-> hasUserContent, run |-> run, stream |-> stream]

\* A nil *evalset.Invocation and the one inferenceInvocation builds.
NilInvocation == [isNil |-> TRUE, InvocationID |-> "", FinalResponse |-> 0, Tools |-> <<>>]

\* No call of inferenceInvocation.  pc: its position; ch, chClosed,
\* emitted: the stream of the runner; consumed: the events the loop has
\* taken; invocationID, finalResponse (0 is nil, else the number of the
\* event it is from), tools, toolIDIdx (0 is absent): its local variables;
\* ret: what it returned.
NoTurn ==
    [pc |-> "off", input |-> TurnInput(TRUE, "ok", <<>>),
     ch |-> <<>>, chClosed |-> FALSE, emitted |-> 0, consumed |-> 0, runnerCalls |-> 0,
     invocationID |-> "", finalResponse |-> 0, tools |-> <<>>,
     toolIDIdx |-> [id \in ToolIDs |-> 0],
     ret |-> [invocation |-> NilInvocation, err |-> NoErr]]

TurnOf(input) == [NoTurn EXCEPT !.pc = "run", !.input = input]

\* inferenceInvocation returns (nil, err).
turnFails(t, err) ==
    [t EXCEPT !.pc = "returned", !.ret = [invocation |-> NilInvocation, err |-> err]]

\* The check of the user content and events, err := r.Run(...).
turnRun ==
    /\ turn.pc = "run"
    /\ turn' = IF ~turn.input.hasUserContent
               THEN turnFails(turn, <<"invocation user content is nil for eval case invocation">>)
               ELSE IF turn.input.run = "err"
                    THEN turnFails([turn EXCEPT !.runnerCalls = 1], <<"runner run", "run failed">>)
                    ELSE [turn EXCEPT !.pc = "range", !.runnerCalls = 1]
    /\ UNCHANGED <<serviceVars, agui>>

\* The body of the loop for the event e.
turnEvent(t, e) ==
    IF e.kind = "nil" THEN t
    ELSE IF e.kind = "error" THEN turnFails(t, <<"event: failed">>)
    ELSE LET named == IF t.invocationID = "" /\ e.InvocationID # ""
                      THEN [t EXCEPT !.invocationID = e.InvocationID] ELSE t IN
         IF IsFinalResponse(e)
         THEN IF e.kind = "finalEmpty"
              THEN turnFails(named, <<"final response has no choices">>)
              ELSE [named EXCEPT !.finalResponse = e.k]
         ELSE LET a == IF IsToolCallResponse(e)
                       THEN appendTools(convertTools(e), named.tools, named.toolIDIdx)
                       ELSE [tools |-> named.tools, toolIDIdx |-> named.toolIDIdx]
                  called == [named EXCEPT !.tools = a.tools, !.toolIDIdx = a.toolIDIdx] IN
              IF IsToolResultResponse(e)
              THEN LET m == mergeToolResultResponse(e, 1, called.toolIDIdx, called.tools) IN
                   IF m.err # NoErr
                   THEN turnFails([called EXCEPT !.tools = m.tools],
                                  <<"convert tool result response">> \o m.err)
                   ELSE [called EXCEPT !.tools = m.tools]
              ELSE called

\* for e := range events: one turn of the loop, or its end when the stream
\* is closed and empty, after which the invocation is built and returned.
turnRange ==
    /\ turn.pc = "range"
    /\ IF turn.ch # <<>>
       THEN turn' = turnEvent([turn EXCEPT !.ch = Tail(@), !.consumed = @ + 1], Head(turn.ch))
       ELSE /\ turn.chClosed
            /\ turn' = [turn EXCEPT !.pc = "returned",
                           !.ret = [invocation |->
                                       [isNil |-> FALSE,
                                        InvocationID |-> IF turn.invocationID = ""
                                                         THEN "given" ELSE turn.invocationID,
                                        FinalResponse |-> turn.finalResponse,
                                        Tools |-> turn.tools],
                                    err |-> NoErr]]
    /\ UNCHANGED <<serviceVars, agui>>

\* The runner, once called, emits the next event of its stream.
streamEmit ==
    /\ turn.runnerCalls = 1 /\ turn.input.run = "ok"
    /\ turn.emitted < Len(turn.input.stream)
    /\ turn' = [turn EXCEPT !.emitted = @ + 1,
                            !.ch = Append(@, turn.input.stream[turn.emitted + 1])]
    /\ UNCHANGED <<serviceVars, agui>>

\* The runner closes its stream after its last event.
streamClose ==
    /\ turn.runnerCalls = 1 /\ turn.input.run = "ok"
    /\ turn.emitted = Len(turn.input.stream) /\ ~turn.chClosed
    /\ turn' = [turn EXCEPT !.chClosed = TRUE]
    /\ UNCHANGED <<serviceVars, agui>>

\* The state in which the calls of `calls` (a function from the batches that
\* run to their inputs) are about to start on service s, whose pool will
\* reject MaxRejects - rejected submissions at most.
ServiceSetup(s, calls, rejected) ==
    /\ svc = s
    /\ in = [b \in Batches |-> IF b \in DOMAIN calls THEN calls[b] ELSE NoCall]
    /\ pc = [b \in Batches |-> IF b \in DOMAIN calls THEN "start" ELSE "off"]
    /\ ctx = [b \in Batches |-> Background]
    /\ req = [b \in Batches |-> IF b \in DOMAIN calls THEN calls[b].EvalCaseIDs ELSE <<>>]
    /\ evalCases = [b \in Batches |-> <<>>]
    /\ results = [b \in Batches |-> <<>>]
    /\ idx = [b \in Batches |-> 0]
    /\ held = [b \in Batches |-> 0]
    /\ invokeErr = [b \in Batches |-> NoErr]
    /\ wg = [b \in Batches |-> 0]
    /\ ret = [b \in Batches |-> NoReturn]
    /\ params = [p \in ParamIds |-> ZeroParam]
    /\ allocated = {}
    /\ recycler = [p \in ParamIds |-> 0]
    /\ worker = [w \in Workers |-> IdleWorker]
    /\ opts = [b \in Batches |-> NilOptions]
    /\ pool = NoPool
    /\ rejects = rejected
    /\ hist = [b \in Batches |-> NoHist]

\* The same, with no AG-UI run and no turn of inferenceInvocation.
Setup(s, calls, rejected) ==
    /\ ServiceSetup(s, calls, rejected)
    /\ agui = NoRun
    /\ turn = NoTurn

\* A service on which no call of Inference is made.
IdleService ==
    ServiceSetup(Service(FALSE, 1, CallbacksOf(<<>>, "none", "ok")), <<>>, MaxRejects)

\* ------------------------------------------------------------ specification
\* The eval set of a call: one case fails in the runner, the first or the
\* last, the others pass.
ParallelKinds == {[i \in 1..MaxCases |-> IF i = f THEN "runnerErr" ELSE "ok"] : f \in {1, MaxCases}}
RequestIDs == {<<>>, <<"c3", "c1">>, <<"none">>}

Init ==
    \E parallel \in BOOLEAN, size \in 1..MaxWorkers,
       kinds \in ParallelKinds, ids \in RequestIDs,
       bset \in {"none", "err"}, aset \in {"ok", "err"} :
        Setup(Service(parallel, size, CallbacksOf(kinds, bset, aset)),
              1 :> CallInput(kinds, ids, <<>>, NoErr, 0), 0)

\* The steps of the goroutine that called Inference for batch b.
Executor(b) ==
    \/ InferenceResolve(b)
    \/ InferenceBeforeSet(b)
    \/ InferenceLoad(b)
    \/ inferEvalCases(b)
    \/ inferEvalCasesSerial(b)
    \/ parallelAdd(b)
    \/ parallelGet(b)
    \/ parallelInvoke(b)
    \/ parallelInvokeRejected(b)
    \/ parallelRejectDone(b)
    \/ parallelRejectWrite(b)
    \/ parallelRejectReset(b)
    \/ parallelRejectPut(b)
    \/ parallelWait(b)
    \/ InferenceAfterSet(b)

\* The steps of worker goroutine w of the pool.
Worker(w) ==
    \/ workerRun(w)
    \/ workerWrite(w)
    \/ workerDone(w)
    \/ workerReset(w)
    \/ workerPut(w)

Next ==
    \/ \E b \in Batches : Executor(b)
    \/ \E w \in Workers : Worker(w)

Spec == Init /\ [][Next]_vars

\* The calls of the fair specification: the first case fails in the runner,
\* the others pass; the after-batch hook, if any, succeeds.
LiveInit ==
    \E parallel \in BOOLEAN, size \in {1, MaxWorkers}, ids \in RequestIDs,
       bset \in {"none", "err"} :
        LET aset == "ok"
            kinds == [i \in 1..MaxCases |-> IF i = 1 THEN "runnerErr" ELSE "ok"] IN
        Setup(Service(parallel, size, CallbacksOf(kinds, bset, aset)),
              1 :> CallInput(kinds, ids, <<>>, NoErr, 0), 0)

\* The Go scheduler runs every goroutine that can run: weak fairness of
\* each executor and of each worker.
LiveSpec ==
    /\ LiveInit /\ [][Next]_vars
    /\ \A b \in Batches : WF_vars(Executor(b))
    /\ \A w \in Workers : WF_vars(Worker(w))

\* Two calls on one service, the second made when the first is over.
\* Case k of the eval set is of kind f, the others pass.  Either both calls
\* have the same cases and the first is serial, the second parallel; or
\* both use the same strategy and differ only in case k, which is of kind
\* ok for the first call and of kind f for the second (under the parallel
\* strategy k is the first or the last case and fails in the runner).
PairKinds == {"ok", "runnerErr", "empty", "nosession", "beforeErr", "afterErr", "trace"}
IsolationKinds == {"ok", "runnerErr", "empty", "beforeErr"}

PairInputs ==
    {<<k, f, "both">> : k \in 1..PairCases, f \in PairKinds}
    \cup {<<k, f, "serial">> : k \in 1..PairCases, f \in IsolationKinds}
    \cup {<<k, "runnerErr", "parallel">> : k \in {1, PairCases}}

PairInit ==
    \E x \in PairInputs :
        LET k == x[1]
            f == x[2]
            mode == x[3]
            size == MaxWorkers
            kindsA == [i \in 1..PairCases |-> "ok"]
            kindsB == [i \in 1..PairCases |-> IF i = k THEN f ELSE "ok"]
            call(kinds, parallel, after) ==
                CallInput(kinds, <<>>,
                          <<WithCallbacks(CallbacksOf(kinds, "none", "ok")),
                            WithEvalCaseParallelInferenceEnabled(parallel)>>,
                          NoErr, after)
        IN  Setup(Service(FALSE, size, NoCallbacks),
                  IF mode = "both"
                  THEN 1 :> call(kindsB, FALSE, 0) @@ 2 :> call(kindsB, TRUE, 1)
                  ELSE 1 :> call(kindsA, mode = "parallel", 0)
                       @@ 2 :> call(kindsB, mode = "parallel", 1),
                  MaxRejects - 1)

PairSpec == PairInit /\ [][Next]_vars

\* One call on a service with callbacks, serial or parallel, of one of
\* three sorts.  Case k (the first or the last) is of kind f and the others
\* pass, with callbacks that leave the batch alone; or all cases pass and
\* the before-batch callback, the after-batch callback and the manager's
\* Get answer in each of their ways; or the option arguments of the call
\* leave the options without a manager, without a session id supplier or
\* without workers.
HookKinds == {"ok", "runnerErr", "empty", "nosession", "beforeErr", "afterErr", "bothErr"}
OptionFaults == {"manager", "supplier", "parallelism"}

HookInputs ==
    {<<FALSE, k, f, "none", "ok", "ok", "none">> : k \in {1, MaxCases}, f \in HookKinds}
    \cup {<<TRUE, 1, f, "none", "ok", "ok", "none">> : f \in HookKinds}
    \cup {<<par, 1, "ok", bset, aset, get, "none">> :
        par \in BOOLEAN, bset \in {"none", "err", "filter", "drop", "ctx"},
        aset \in {"ok", "err"}, get \in {"ok", "err"}}
    \cup {<<par, 1, "ok", "ctx", "ok", "ok", fault>> :
        par \in BOOLEAN, fault \in OptionFaults}

HookInit ==
    \E x \in HookInputs :
        LET kinds == [i \in 1..MaxCases |-> IF i = x[2] THEN x[3] ELSE "ok"]
            getErr == IF x[6] = "err" THEN <<"get failed">> ELSE NoErr
            opt == IF x[7] = "manager" THEN <<WithEvalSetManager("nil")>>
                   ELSE IF x[7] = "supplier" THEN <<WithSessionIDSupplier("nil")>>
                   ELSE IF x[7] = "parallelism"
                   THEN <<WithEvalCaseParallelInferenceEnabled(TRUE),
                          WithEvalCaseParallelism(0)>>
                   ELSE <<>>
        IN  Setup(Service(x[1], MaxWorkers, CallbacksOf(kinds, x[4], x[5])),
                  1 :> CallInput(kinds, <<>>, opt, getErr, 0),
                  MaxRejects - 1)

HookSpec == HookInit /\ [][Next]_vars

\* Two concurrent calls on one service whose stored worker count is 0 or
\* MaxWorkers, each with one case that passes and with one of these lists
\* of option arguments: none; a session id supplier; a supplier, a callback
\* set and a second supplier; parallel inference with one worker; parallel
\* inference with no worker and then with MaxWorkers; parallel inference
\* enabled and then disabled.
OptionLists ==
    LET kinds == <<"ok">> IN
    {<<>>,
     <<WithSessionIDSupplier("call-session")>>,
     <<WithSessionIDSupplier("first-session"),
       WithCallbacks(CallbacksOf(kinds, "ctx", "ok")),
       WithSessionIDSupplier("call-session")>>,
     <<WithEvalCaseParallelInferenceEnabled(TRUE), WithEvalCaseParallelism(1)>>,
     <<WithEvalCaseParallelInferenceEnabled(TRUE), WithEvalCaseParallelism(0),
       WithEvalCaseParallelism(MaxWorkers)>>,
     <<WithEvalCaseParallelInferenceEnabled(TRUE),
       WithEvalCaseParallelInferenceEnabled(FALSE)>>}

OptionInit ==
    \E size \in {0, MaxWorkers}, o1 \in OptionLists, o2 \in OptionLists :
        LET kinds == <<"ok">> IN
        Setup(Service(FALSE, size, CallbacksOf(kinds, "none", "ok")),
              1 :> CallInput(kinds, <<>>, o1, NoErr, 0)
              @@ 2 :> CallInput(kinds, <<>>, o2, NoErr, 0),
              MaxRejects - 1)

OptionSpec == OptionInit /\ [][Next]_vars

\* One call, serial or parallel, on an eval set of two cases: a case of any
\* shape and a live case that passes.  The shapes: either mode, an expected
\* conversation of no, one or two turns, an actual conversation that is
\* absent, sound, or has a nil turn or a turn without user content, with
\* or without a session input; and a live one-turn case with no, two or a
\* nil context message, on a service with or without global run options;
\* and a case that passes (trace without or with actual conversation, or
\* live) whose before-case or after-case callback fails, next to a case
\* whose runner call fails.  An input is the first case, the global run
\* options and the kinds of the two cases as to callbacks and runner.
CaseConversations == {<<>>, <<"u1">>, <<"u1", "u2">>}
CaseActuals == {<<>>, <<"a1">>, <<"a1", "a2">>, <<"nil">>, <<"a1", "nouser">>, <<"nouser", "nil">>}
CaseContextMessages == {<<>>, <<"case system", "case user">>, <<"case system", "nil">>}
GlobalRunOptions ==
    {<<>>,
     <<WithInjectedContextMessages(<<"global injected">>),
       WithRuntimeState(<<"from_run_option">>)>>,
     <<WithRuntimeState(<<"from_run_option">>),
       WithInjectedContextMessages(<<"global 1">>),
       WithInjectedContextMessages(<<"global 2">>)>>}

CaseInputs ==
    {<<EvalCase("c1", m, conv, act, si, <<>>), <<>>, <<"ok", "ok">>>> :
        m \in {EvalModeDefault, EvalModeTrace}, conv \in CaseConversations,
        act \in CaseActuals, si \in {NilSessionInput, SessionInputOf("user")}}
    \cup {<<EvalCase("c1", EvalModeDefault, <<"u1">>, <<>>, SessionInputOf("user"), cm), ro,
             <<"ok", "ok">>>> :
        cm \in CaseContextMessages, ro \in GlobalRunOptions}
    \cup {<<EvalCase("c1", m, <<"u1">>, act, SessionInputOf("user"), <<>>), <<>>,
             <<k, "runnerErr">>>> :
        m \in {EvalModeDefault, EvalModeTrace}, act \in {<<>>, <<"a1">>},
        k \in {"beforeErr", "afterErr"}}

CaseInit ==
    \E parallel \in BOOLEAN, x \in CaseInputs :
        LET kinds == x[3]
            s == [Service(parallel, MaxWorkers, CallbacksOf(kinds, "none", "ok"))
                    EXCEPT !.runOptions = x[2]]
            call == [CallInput(kinds, <<>>, <<>>, NoErr, 0)
                        EXCEPT !.evalSet = <<x[1], KindCase("c2", kinds[2])>>]
        IN  Setup(s, 1 :> call, MaxRejects - 1)

CaseSpec == CaseInit /\ [][Next]_vars

\* The caller cancels the context of the call of batch b while the call
\* runs.
Cancel(b) ==
    /\ pc[b] \notin {"off", "returned", "panicked"}
    /\ ~in[b].cancelled
    /\ in' = [in EXCEPT ![b].cancelled = TRUE]
    /\ UNCHANGED <<pc, ctx, req, evalCases, results, idx, held, invokeErr, wg, ret,
                   params, allocated, recycler, worker, svc, opts, pool, rejects, hist,
                   agui, turn>>

\* One call, serial or parallel, whose cases all pass unless the caller
\* cancels the context, which it may do at any time; the goroutines are
\* scheduled as in LiveSpec, the caller need not cancel.
CancelInit ==
    \E parallel \in BOOLEAN, size \in 1..MaxWorkers :
        LET kinds == [i \in 1..PairCases |-> "ok"] IN
        Setup(Service(parallel, size, CallbacksOf(kinds, "none", "ok")),
              1 :> CallInput(kinds, <<>>, <<>>, NoErr, 0),
              MaxRejects - 1)

CancelNext ==
    \/ Next
    \/ \E b \in Batches : Cancel(b)

CancelSpec ==
    /\ CancelInit /\ [][CancelNext]_vars
    /\ \A b \in Batches : WF_vars(Executor(b))
    /\ \A w \in Workers : WF_vars(Worker(w))

\* One call, serial or parallel, in which the runner panics on the first
\* or on the last case and answers on the others, under the scheduling of
\* LiveSpec.
PanicInit ==
    \E parallel \in BOOLEAN, size \in 1..MaxWorkers, k \in {1, PairCases} :
        LET kinds == [i \in 1..PairCases |-> IF i = k THEN "panic" ELSE "ok"] IN
        Setup(Service(parallel, size, CallbacksOf(kinds, "none", "ok")),
              1 :> CallInput(kinds, <<>>, <<>>, NoErr, 0),
              MaxRejects - 1)

PanicSpec ==
    /\ PanicInit /\ [][Next]_vars
    /\ \A b \in Batches : WF_vars(Executor(b))
    /\ \A w \in Workers : WF_vars(Worker(w))

\* One call on an eval set of passing cases, one of which may be nil, for a
\* request that names no case, names cases out of eval-set order, names a
\* case twice, or names an id no case has.  The parallel strategy, with one
\* worker, is used for some of these.
LoadRequests ==
    {<<>>, <<"c3", "c1">>, <<"c2", "c2">>, <<"none", "c2">>, <<"none">>, <<"c3", "c1", "c3">>}

LoadInputs ==
    {<<FALSE, n, ids>> : n \in 0..MaxCases, ids \in LoadRequests}
    \cup {<<TRUE, n, ids>> : n \in {0, 2}, ids \in {<<>>, <<"c3", "c1", "c3">>}}

LoadInit ==
    \E x \in LoadInputs :
        LET kinds == [i \in 1..MaxCases |-> IF i = x[2] THEN "nil" ELSE "ok"] IN
        Setup(Service(x[1], 1, CallbacksOf(kinds, "none", "ok")),
              1 :> CallInput(kinds, x[3], <<>>, NoErr, 0),
              MaxRejects - 1)

LoadSpec == LoadInit /\ [][Next]_vars

\* Two calls made at the same time on one service, which share its pool of
\* one or MaxWorkers workers and its recycler.  The first call is parallel
\* and for all PairCases cases of the eval set, which pass; the second call
\* is for the last case only, which fails in its runner, and is parallel
\* or, on the pool of one worker, serial.  The pool of one worker may
\* refuse one task of two parallel calls.  An input is the number of
\* workers, whether the second call is parallel, and the tasks the pool has
\* refused already.
ShareInputs ==
    {<<1, TRUE, MaxRejects - 1>>, <<MaxWorkers, TRUE, MaxRejects>>, <<1, FALSE, MaxRejects>>}

ShareInit ==
    \E x \in ShareInputs :
        LET kindsA == [i \in 1..PairCases |-> "ok"]
            kindsB == [i \in 1..PairCases |-> IF i = PairCases THEN "runnerErr" ELSE "ok"]
            call(kinds, ids2, parallel) ==
                CallInput(kinds, ids2,
                          <<WithCallbacks(CallbacksOf(kinds, "none", "ok")),
                            WithEvalCaseParallelInferenceEnabled(parallel)>>,
                          NoErr, 0)
        IN  Setup(Service(FALSE, x[1], NoCallbacks),
                  1 :> call(kindsA, <<>>, TRUE)
                  @@ 2 :> call(kindsB, <<CaseIdOf(PairCases)>>, x[2]),
                  x[3])

ShareSpec == ShareInit /\ [][Next]_vars

\* Two calls on one service, each for one live case that passes.  The
\* service stores no run options or two; the first call has overrides: a
\* session id supplier; a callback set and parallel inference with one
\* worker; a run-option list that replaces the stored one, or extends it,
\* or whose first element is assigned, alone or after one of the other
\* two.  The second call has no override or assigns the first run option,
\* and is made at the same time as the first or after it.
DefaultRunOptions ==
    {<<>>,
     <<WithRuntimeState(<<"from_run_option">>),
       WithInjectedContextMessages(<<"global injected">>)>>}

DefaultServices ==
    {[Service(FALSE, MaxWorkers, CallbacksOf(<<"ok">>, "none", "ok")) EXCEPT !.runOptions = ro] :
        ro \in DefaultRunOptions}

OverrideLists ==
    LET call == WithRuntimeState(<<"call state">>)
        more == <<WithInjectedContextMessages(<<"call injected">>)>> IN
    {<<WithSessionIDSupplier("call-session")>>,
     <<WithCallbacks(CallbacksOf(<<"ok">>, "ctx", "ok")),
       WithEvalCaseParallelInferenceEnabled(TRUE), WithEvalCaseParallelism(1)>>,
     <<ReplaceRunOptions(<<call>>)>>,
     <<ExtendRunOptions(more)>>,
     <<SetFirstRunOption(call)>>,
     <<ExtendRunOptions(more), SetFirstRunOption(call)>>,
     <<ReplaceRunOptions(more), SetFirstRunOption(call)>>}

DefaultsInit ==
    \E s \in DefaultServices, o1 \in OverrideLists,
       o2 \in {<<>>, <<SetFirstRunOption(WithRuntimeState(<<"second call">>))>>},
       after \in {0, 1} :
        Setup(s, 1 :> CallInput(<<"ok">>, <<>>, o1, NoErr, 0)
                 @@ 2 :> CallInput(<<"ok">>, <<>>, o2, NoErr, after),
              MaxRejects - 1)

DefaultsSpec == DefaultsInit /\ [][Next]_vars

\* One AG-UI run.  Either its input is refused (no message, a failing
\* user-id resolver, a last message that is not a user message) or the
\* underlying runner fails, and then the agent has one event it never gets
\* to emit; or the input is valid and the agent emits up to MaxEvents
\* events of any kinds.  The caller receives whatever run sends.
AguiMessages == {<<>>, <<"user">>, <<"assistant">>, <<"assistant", "user">>, <<"user", "assistant">>}
AguiObserves == {"sync", "later", "never"}
AguiStreams == UNION {[1..n -> AgentEventKinds] : n \in 0..MaxEvents}

AguiInputs ==
    {RunInput(m, r, u, "sync", <<"one">>) :
        m \in AguiMessages, r \in {"ok", "err"}, u \in {"ok", "err"}}
    \cup {RunInput(m, "ok", "ok", o, k) :
            m \in {<<"user">>, <<"assistant", "user">>}, o \in AguiObserves, k \in AguiStreams}

AguiInit ==
    \E x \in AguiInputs :
        /\ IdleService
        /\ agui = RunOf(x)
        /\ turn = NoTurn

AguiNext ==
    \/ runStarted
    \/ runMessages
    \/ runResolve
    \/ runLast
    \/ runRunner
    \/ runSelect
    \/ runRange
    \/ runSend
    \/ runReturn
    \/ agentEmit
    \/ agentClose
    \/ agentObserve
    \/ aguiCancel

AguiSpec == AguiInit /\ [][AguiNext]_vars

\* One call of inferenceInvocation: without user content, with a runner
\* whose Run fails, or with a runner that emits up to MaxEvents events of
\* any shapes and then closes its stream.
TurnEventShapes ==
    {<<"nil", <<>>>>, <<"error", <<>>>>, <<"final", <<>>>>, <<"finalEmpty", <<>>>>,
     <<"other", <<>>>>, <<"call", <<"t1">>>>, <<"call", <<"t1", "t2">>>>,
     <<"result", <<"t1">>>>, <<"result", <<"t2">>>>, <<"result", <<"t1", "t2">>>>}

TurnStreams ==
    UNION {{[k \in 1..n |-> StreamEvent(k, f[k][1], f[k][2])] : f \in [1..n -> TurnEventShapes]} :
              n \in 0..MaxEvents}

TurnInputs ==
    {TurnInput(FALSE, "ok", <<>>), TurnInput(TRUE, "err", <<>>)}
    \cup {TurnInput(TRUE, "ok", st) : st \in TurnStreams}

TurnInit ==
    \E x \in TurnInputs :
        /\ IdleService
        /\ agui = NoRun
        /\ turn = TurnOf(x)

TurnNext ==
    \/ turnRun
    \/ turnRange
    \/ streamEmit
    \/ streamClose

\* The Go scheduler runs the goroutine of inferenceInvocation when it can
\* run; the runner need not emit or close.
TurnSpec == TurnInit /\ [][TurnNext]_vars /\ WF_vars(turnRun \/ turnRange)

\* ------------------------------------------------------------ properties
\* The call of batch b ran under the parallel strategy and
\* inferEvalCasesParallel has returned its results to Inference.
ParallelReturned(b) ==
    /\ pc[b] \in {"afterSet", "returned"}
    /\ opts[b].EvalCaseParallelInferenceEnabled
    /\ Len(evalCases[b]) > 0
    /\ hist[b].adds > 0

\* The results of batch b as inferEvalCases handed them to Inference: what
\* Inference returns unless an after-batch callback fails.
Handed(b) == IF pc[b] = "returned" /\ ret[b].err # NoErr THEN results[b] ELSE ret[b].results.items

\* The executor of batch b is inside inferEvalCasesParallel.
InParallel(b) ==
    pc[b] \in {"parAdd", "parGet", "parInvoke", "parRejDone", "parRejWrite", "parRejReset",
               "parRejPut", "parWait"}

\* C1: the list a parallel batch returns has one element per loaded case,
\* and element i is a result of case i (it carries the id of case i and a
\* final status), whatever the order in which the workers finished.
C1_ParallelResultsInCaseOrder ==
    \A b \in Batches :
        ParallelReturned(b) =>
            /\ Len(Handed(b)) = Len(evalCases[b])
            /\ \A i \in 1..Len(evalCases[b]) :
                 /\ ~Handed(b)[i].isNilResult
                 /\ Handed(b)[i].EvalCaseID = evalCases[b][i].EvalID
                 /\ Handed(b)[i].Status \in {StatusPassed, StatusFailed}

\* A parallel batch has returned to its caller although a worker wrote a
\* later slot while an earlier one was still empty.
C1_Witness ==
    \E b \in Batches :
        /\ ParallelReturned(b) /\ pc[b] = "returned" /\ ret[b].err = NoErr
        /\ Len(evalCases[b]) >= 2
        /\ hist[b].overtaken

\* C2: the barrier of a parallel batch is never below zero; no case is
\* signaled more than once, a rejected case only by the executor and an
\* accepted one only by its worker; and when the wait has returned every
\* case has been signaled exactly once.
C2_BarrierSignaledOncePerCase ==
    \A b \in Batches :
        /\ wg[b] >= 0
        /\ \A i \in 1..MaxCases :
             /\ hist[b].workerSignals[i] + hist[b].executorSignals[i] <= 1
             /\ hist[b].executorSignals[i] = 1 => i \in hist[b].rejected
             /\ hist[b].workerSignals[i] = 1 => i \notin hist[b].rejected
        /\ ParallelReturned(b) =>
             \A i \in 1..Len(evalCases[b]) :
                 hist[b].workerSignals[i] + hist[b].executorSignals[i] = 1

\* A parallel batch is over in which one case was signaled by the executor
\* (rejected) and another by its worker.
C2_Witness ==
    \E b \in Batches :
        /\ ParallelReturned(b)
        /\ \E i, j \in 1..Len(evalCases[b]) :
             hist[b].executorSignals[i] = 1 /\ hist[b].workerSignals[j] = 1

\* The number of barrier signals of batch b so far.
RECURSIVE SumTo(_, _)
SumTo(f, n) == IF n = 0 THEN 0 ELSE f[n] + SumTo(f, n - 1)
Signals(b) == SumTo(hist[b].workerSignals, MaxCases) + SumTo(hist[b].executorSignals, MaxCases)

\* C3 as stated: during one parallel batch the barrier's counter comes to
\* zero exactly once, at the end of the batch.
C3_ZeroExactlyOnce ==
    \A b \in Batches :
        /\ hist[b].zeros <= 1
        /\ ParallelReturned(b) => hist[b].zeros = 1

\* C3 as amended: once the last case of a parallel batch has been counted
\* in, the counter comes to zero exactly once, and the wait returns only
\* then; while cases are still being submitted the counter may come back to
\* zero, and does so only when every case counted so far has been signaled.
C3_ZeroOnceAfterLastAdd ==
    \A b \in Batches :
        /\ hist[b].finalZeros <= 1
        /\ ParallelReturned(b) =>
             /\ hist[b].finalZeros = 1
             /\ hist[b].adds = Len(evalCases[b])
             /\ wg[b] = 0
        /\ wg[b] = 0 => Signals(b) = hist[b].adds

\* A parallel batch is over whose counter was at zero before its last case
\* was counted in, and came to zero once more at the end.
C3_Witness ==
    \E b \in Batches :
        /\ ParallelReturned(b)
        /\ hist[b].zeros >= 2
        /\ hist[b].finalZeros = 1

\* C4: under fair scheduling of the executor and the workers every call of
\* Inference that was made eventually returns (a call that has returned
\* stays returned), whatever the number of cases, zero included, and
\* whichever submissions the pool rejects.
C4_InferenceReturns ==
    <>(\A b \in Batches : pc[b] # "off" => pc[b] = "returned")

\* A parallel call has returned that had more cases than the pool has
\* workers and one of whose submissions was rejected.
C4_Witness ==
    \E b \in Batches :
        /\ ParallelReturned(b) /\ pc[b] = "returned"
        /\ Len(evalCases[b]) > pool.size
        /\ hist[b].rejected # {}

\* C5: in a parallel batch the results slice has one slot per case from
\* before the first submission on; no slot is ever written twice; and when
\* the executor returns every slot has been written exactly once.
C5_EverySlotWrittenOnce ==
    \A b \in Batches :
        /\ (InParallel(b) \/ ParallelReturned(b)) =>
             /\ Len(results[b]) = Len(evalCases[b])
             /\ \A i \in 1..MaxCases : hist[b].writes[i] <= 1
        /\ (pc[b] = "parAdd" /\ hist[b].adds = 0) =>
             \A i \in 1..Len(results[b]) : results[b][i].isNilResult
        /\ ParallelReturned(b) =>
             \A i \in 1..Len(evalCases[b]) :
                 hist[b].writes[i] = 1 /\ ~results[b][i].isNilResult

\* A parallel batch is over with a slot written by a worker with a passed
\* result, one written by a worker with a failed result, and one written by
\* the executor after a rejected submission.
C5_Witness ==
    \E b \in Batches :
        /\ ParallelReturned(b)
        /\ \E i, j, k \in 1..Len(evalCases[b]) :
             /\ i \notin hist[b].rejected /\ results[b][i].Status = StatusPassed
             /\ j \notin hist[b].rejected /\ results[b][j].Status = StatusFailed
             /\ k \in hist[b].rejected

\* C6: the number of workers that hold a case never exceeds the worker
\* count the service built its pool with.
C6_AtMostPoolSizeRunning ==
    Cardinality(Busy) <= svc.evalCaseParallelism

\* All workers of the pool are running, fewer than the model has, while the
\* executor has a further case to submit.
C6_Witness ==
    \E b \in Batches :
        /\ pc[b] = "parInvoke"
        /\ Cardinality(Busy) = svc.evalCaseParallelism
        /\ svc.evalCaseParallelism < MaxWorkers
        /\ \A w \in Busy : worker[w].pc = "run"

\* The rejection branch for slot i of batch b has run to its end.
RejectionHandled(b, i) ==
    /\ i \in hist[b].rejected
    /\ idx[b] >= i

\* C9: once the rejection branch for case i is through, slot i holds a
\* failed result of case i whose message names the case and wraps the
\* pool's error, with nil invocations; the executor signaled the barrier
\* once for it and no worker did; its parameter went back to the recycler
\* once, reset; and when the batch is over every case has been counted in,
\* the others were run by workers, and the batch error is nil.
C9_RejectedSubmissionBecomesFailure ==
    \A b \in Batches :
        /\ \A i \in 1..Len(evalCases[b]) :
             RejectionHandled(b, i) =>
                 /\ ~results[b][i].isNilResult
                 /\ results[b][i].EvalCaseID = evalCases[b][i].EvalID
                 /\ results[b][i].Status = StatusFailed
                 /\ results[b][i].ErrorMessage =
                        <<"submit inference task for eval case", evalCases[b][i].EvalID,
                          "this pool has been closed">>
                 /\ results[b][i].Inferences.isNil
                 /\ hist[b].executorSignals[i] = 1
                 /\ hist[b].workerSignals[i] = 0
                 /\ hist[b].puts[i] = 1
                 /\ hist[b].dirtyPuts = 0
        /\ (ParallelReturned(b) /\ hist[b].rejected # {}) =>
             /\ hist[b].adds = Len(evalCases[b])
             /\ \A j \in 1..Len(evalCases[b]) :
                  j \notin hist[b].rejected => hist[b].workerSignals[j] = 1
             /\ pc[b] = "afterSet" => ret[b].err = NoErr

\* A parallel batch has returned in which the submission of a case was
\* rejected and a later case was run by a worker.
C9_Witness ==
    \E b \in Batches :
        /\ ParallelReturned(b) /\ pc[b] = "returned" /\ ret[b].err = NoErr
        /\ \E i, j \in 1..Len(evalCases[b]) :
             /\ i < j
             /\ RejectionHandled(b, i)
             /\ hist[b].workerSignals[j] = 1

\* The before-batch callbacks of batch b have run and failed.
BeforeSetFailed(b) ==
    /\ hist[b].beforeSet = 1
    /\ opts[b].Callbacks.BeforeInferenceSet.err # NoErr

\* C10: when a before-batch callback fails, Inference has returned nil
\* results and that error wrapped with "run before inference set
\* callbacks"; no case was loaded or processed, no case callback and no
\* after-batch callback ran.
C10_BeforeSetErrorAborts ==
    \A b \in Batches :
        BeforeSetFailed(b) =>
            /\ pc[b] = "returned"
            /\ ret[b].results.isNil
            /\ ret[b].err = <<"run before inference set callbacks", in[b].AppName,
                              in[b].EvalSetID,
                              "run before inference set callbacks", in[b].AppName,
                              in[b].EvalSetID>>
                                \o opts[b].Callbacks.BeforeInferenceSet.err
            /\ hist[b].loads = 0
            /\ evalCases[b] = <<>>
            /\ hist[b].afterSet = 0
            /\ hist[b].adds = 0
            /\ \A i \in 1..MaxCases : hist[b].writes[i] = 0 /\ hist[b].calls[i] = NoCalls

\* Inference has returned after a failed before-batch callback, for a
\* request whose eval set has cases.
C10_Witness ==
    \E b \in Batches :
        /\ BeforeSetFailed(b)
        /\ pc[b] = "returned"
        /\ Len(in[b].evalSet) > 0

\* What the claims compare of a case result.
Outcome(r) == <<r.Status, r.ErrorMessage, r.Inferences>>

\* Calls 1 and 2 have both returned what inferEvalCases gave them.
BothReturned ==
    /\ pc[1] = "returned" /\ pc[2] = "returned"
    /\ ret[1].err = NoErr /\ ret[2].err = NoErr

SameStrategy ==
    opts[1].EvalCaseParallelInferenceEnabled = opts[2].EvalCaseParallelInferenceEnabled

C8_SerialParallelAgree ==
    (/\ BothReturned /\ ~SameStrategy
     /\ in[1].kinds = in[2].kinds /\ in[1].EvalCaseIDs = in[2].EvalCaseIDs
     /\ hist[1].rejected = {} /\ hist[2].rejected = {}) =>
        /\ Len(Handed(1)) = Len(Handed(2))
        /\ \A i \in 1..Len(Handed(1)) :
             /\ Handed(1)[i].EvalCaseID = Handed(2)[i].EvalCaseID
             /\ Handed(1)[i].Status = Handed(2)[i].Status

\* A serial and a parallel batch over the same cases have returned without
\* a rejection, one case passed and one failed, and the parallel batch's
\* workers finished out of order.
C8_Witness ==
    /\ BothReturned /\ ~SameStrategy
    /\ in[1].kinds = in[2].kinds
    /\ hist[1].rejected = {} /\ hist[2].rejected = {}
    /\ hist[1].overtaken \/ hist[2].overtaken
    /\ \E i, j \in 1..Len(Handed(1)) :
         Handed(1)[i].Status = StatusPassed /\ Handed(1)[j].Status = StatusFailed

\* The before-batch callbacks of batch b have run and succeeded.
BeforeSetPassed(b) ==
    /\ hist[b].beforeSet = 1
    /\ opts[b].Callbacks.BeforeInferenceSet.err = NoErr

\* C11: the after-batch callbacks run at most once, only for a batch whose
\* before-batch callbacks succeeded, and such a batch does not return
\* without them, whether loading failed, no case was selected or the cases
\* were processed.  When they have run no worker is still in the pipeline
\* of a case of the batch or about to write its slot, and what they were
\* given is the error and the list the batch ends with: the load error and
\* no list, or an empty list, or the list of all slots, each filled, which
\* no write changes afterwards.
C11_AfterSetOnceAfterAllCases ==
    \A b \in Batches :
        /\ hist[b].afterSet <= 1
        /\ hist[b].afterSet = 1 => BeforeSetPassed(b)
        /\ (BeforeSetPassed(b) /\ pc[b] = "returned") => hist[b].afterSet = 1
        /\ hist[b].afterSet = 1 =>
              LET args == hist[b].afterSetArgs IN
              /\ \A w \in Workers :
                    worker[w].task[1] = b => worker[w].pc \in {"reset", "put"}
              /\ IF in[b].getErr # NoErr
                 THEN /\ args.Results.isNil
                      /\ args.Error = <<"load inference eval cases", "get eval set">>
                                        \o in[b].getErr
                 ELSE IF evalCases[b] = <<>>
                 THEN args.Results = Slice(<<>>) /\ args.Error = NoErr
                 ELSE /\ args.Error = NoErr
                      /\ args.Results = Slice(results[b])
                      /\ Len(results[b]) = Len(evalCases[b])
                      /\ \A i \in 1..Len(results[b]) :
                            /\ ~results[b][i].isNilResult
                            /\ results[b][i].EvalCaseID = evalCases[b][i].EvalID

\* The after-batch callbacks of a parallel batch have run, on the full
\* list, while a worker that ran one of its cases is still giving its
\* parameter back.
C11_Witness ==
    \E b \in Batches :
        /\ ParallelReturned(b)
        /\ hist[b].afterSet = 1
        /\ hist[b].afterSetArgs.Results = Slice(results[b])
        /\ \E w \in Workers : worker[w].task[1] = b /\ worker[w].pc = "put"

\* The after-batch callbacks of batch b have run and failed.
AfterSetFailed(b) ==
    /\ hist[b].afterSet = 1
    /\ opts[b].Callbacks.AfterInferenceSet # NoErr

\* C12: when an after-batch callback fails, Inference returns nil results
\* and the callback's error wrapped with "run after inference set
\* callbacks", the app name and the eval set id, whatever results and error
\* the batch had produced.
C12_AfterSetErrorOverrides ==
    \A b \in Batches :
        AfterSetFailed(b) =>
            /\ pc[b] = "returned"
            /\ ret[b].results.isNil
            /\ ret[b].err = <<"run after inference set callbacks", in[b].AppName,
                              in[b].EvalSetID>> \o opts[b].Callbacks.AfterInferenceSet

\* Inference has returned after a failed after-batch callback that was
\* given a full list of results and no error.
C12_Witness ==
    \E b \in Batches :
        /\ AfterSetFailed(b)
        /\ pc[b] = "returned"
        /\ hist[b].afterSetArgs.Error = NoErr
        /\ ~hist[b].afterSetArgs.Results.isNil
        /\ Len(hist[b].afterSetArgs.Results.items) = Len(in[b].evalSet)
        /\ Len(in[b].evalSet) > 0

\* Inference returned from option resolution (no callback had run).
ConfigFailed(b) == pc[b] = "returned" /\ hist[b].beforeSet = 0

\* The manager's Get failed for batch b.
LoadFailed(b) == hist[b].loads = 1 /\ in[b].getErr # NoErr

CasesDone(b) ==
    /\ pc[b] \in {"afterSet", "returned"}
    /\ hist[b].loads = 1 /\ ~LoadFailed(b)
    /\ evalCases[b] # <<>>

\* The answers of the case callbacks for the case at position i of batch b.
BeforeCaseHook(b, i) == opts[b].Callbacks.BeforeInferenceCase[evalCases[b][i].EvalID]
AfterCaseHook(b, i) == opts[b].Callbacks.AfterInferenceCase[evalCases[b][i].EvalID]

\* C14: when the before-case callback of a case fails (the case having
\* been taken by the serial loop or by a worker), the result of the case
\* is failed with the callback's error wrapped in "run before inference
\* case callbacks" as message, the runner was not called for the case,
\* every other case has its result, its own before-case callback having
\* run unless its submission was rejected, and the batch error is nil.
C14_BeforeCaseErrorFailsCaseOnly ==
    \A b \in Batches :
        CasesDone(b) =>
            \A i \in 1..Len(evalCases[b]) :
                (BeforeCaseHook(b, i).err # NoErr /\ i \notin hist[b].rejected) =>
                    /\ results[b][i].Status = StatusFailed
                    /\ results[b][i].ErrorMessage =
                          <<"run before inference case callbacks">> \o BeforeCaseHook(b, i).err
                    /\ results[b][i].Inferences = NilInferences
                    /\ hist[b].calls[i].before = 1
                    /\ hist[b].calls[i].runner = 0
                    /\ \A j \in 1..Len(evalCases[b]) :
                          j # i =>
                            /\ ~results[b][j].isNilResult
                            /\ results[b][j].EvalCaseID = evalCases[b][j].EvalID
                            /\ hist[b].writes[j] = 1
                            /\ j \notin hist[b].rejected => hist[b].calls[j].before = 1
                    /\ hist[b].afterSet = 1 => hist[b].afterSetArgs.Error = NoErr
                    /\ (pc[b] = "returned" /\ ~AfterSetFailed(b)) => ret[b].err = NoErr

\* A parallel batch has returned in which the before-case callback of one
\* case failed and another case passed after its runner was called.
C14_Witness ==
    \E b \in Batches :
        /\ CasesDone(b) /\ pc[b] = "returned"
        /\ opts[b].EvalCaseParallelInferenceEnabled
        /\ \E i, j \in 1..Len(evalCases[b]) :
              /\ BeforeCaseHook(b, i).err # NoErr /\ i \notin hist[b].rejected
              /\ results[b][j].Status = StatusPassed
              /\ hist[b].calls[j].runner > 0

\* C15: when the cases of a batch are done, the after-case callbacks have
\* run exactly once for every case of the batch, the cases whose
\* before-case callback failed and the cases whose submission was rejected
\* included.
C15_AfterCaseOncePerCase ==
    \A b \in Batches :
        CasesDone(b) => \A i \in 1..Len(evalCases[b]) : hist[b].calls[i].after = 1

\* C16: when the after-case callback of a case fails, the result of the
\* case is failed, without invocations, and its message joins the error
\* the case had met (the runner's, wrapped, if the runner failed; none if
\* the case had passed) with the callback's error wrapped in "run after
\* inference case callbacks".
C16_AfterCaseErrorOverwrites ==
    \A b \in Batches :
        CasesDone(b) =>
            \A i \in 1..Len(evalCases[b]) :
                (AfterCaseHook(b, i) # NoErr /\ hist[b].calls[i].after = 1) =>
                    LET given == hist[b].calls[i].afterArgs
                        id == evalCases[b][i].EvalID
                        wrapped == <<"run after inference case callbacks">>
                                      \o AfterCaseHook(b, i)
                    IN
                    /\ results[b][i].Status = StatusFailed
                    /\ results[b][i].Inferences = NilInferences
                    /\ results[b][i].EvalCaseID = id
                    /\ results[b][i].ErrorMessage = given.Error \o wrapped
                    /\ given.Result.Status = StatusPassed => given.Error = NoErr
                    /\ in[b].runner[id] # NoErr =>
                          given.Error = <<"inference eval case", id>> \o in[b].runner[id]

\* A batch is done in which a case had passed, with invocations, when its
\* after-case callback failed.
C16_Witness ==
    \E b \in Batches :
        /\ CasesDone(b)
        /\ \E i \in 1..Len(evalCases[b]) :
              /\ AfterCaseHook(b, i) # NoErr /\ hist[b].calls[i].after = 1
              /\ hist[b].calls[i].afterArgs.Result.Status = StatusPassed
              /\ ~hist[b].calls[i].afterArgs.Result.Inferences.isNil
              /\ results[b][i].Status = StatusFailed

\* The values a context carries.
ValuesOf(c) == {c[n] : n \in 1..Len(c)}

\* C17: the before-case callback of every case is given the context of the
\* batch; the runner call and the after-case callback of a case are given
\* the context its own before-case callback returned (the batch context
\* with the value that callback added), and no context given for a case
\* carries the value the callback of another case added.
C17_CaseContextStaysWithCase ==
    \A b \in Batches :
        CasesDone(b) =>
            \A i \in 1..Len(evalCases[b]) :
                LET made == hist[b].calls[i] IN
                /\ made.before = 1 => made.beforeCtx = ctx[b]
                /\ (made.runner > 0 \/ made.after = 1) =>
                      made.caseCtx = ctx[b] \o <<BeforeCaseHook(b, i).ctx>>
                /\ \A j \in 1..Len(evalCases[b]) :
                      j # i => BeforeCaseHook(b, j).ctx
                                  \notin ValuesOf(made.beforeCtx) \cup ValuesOf(made.caseCtx)

\* A parallel batch is done, whose workers finished out of order, in which
\* the runner was called for two cases, each with the context of its own
\* before-case callback.
C17_Witness ==
    \E b \in Batches :
        /\ CasesDone(b)
        /\ opts[b].EvalCaseParallelInferenceEnabled
        /\ hist[b].overtaken
        /\ \E i, j \in 1..Len(evalCases[b]) :
              /\ i # j
              /\ hist[b].calls[i].runner > 0 /\ hist[b].calls[j].runner > 0
              /\ hist[b].calls[i].after = 1 /\ hist[b].calls[j].after = 1
              /\ hist[b].calls[i].caseCtx # hist[b].calls[j].caseCtx

\* C18: when the before-batch callbacks succeeded and returned a context
\* (the caller's with a value added), the later steps of the batch are
\* given that context: the manager's Get, the session id supplier for the
\* result of every case (rejected ones included), every before-case
\* callback, every runner call (through the case's own context, which
\* extends it) and the after-batch callbacks.
C18_BeforeSetContextUsed ==
    \A b \in Batches :
        (BeforeSetPassed(b) /\ opts[b].Callbacks.BeforeInferenceSet.ctx # "") =>
            LET new == Background \o <<opts[b].Callbacks.BeforeInferenceSet.ctx>> IN
            /\ ctx[b] = new
            /\ hist[b].loads = 1 => hist[b].loadCtx = new
            /\ hist[b].afterSet = 1 => hist[b].afterSetArgs.ctx = new
            /\ \A i \in 1..Len(results[b]) :
                  ~results[b][i].isNilResult =>
                      results[b][i].SessionID = SessionIDSupplier(opts[b], new)
            /\ \A i \in 1..Len(evalCases[b]) :
                  LET made == hist[b].calls[i] IN
                  /\ made.before = 1 => made.beforeCtx = new
                  /\ made.runner > 0 =>
                        /\ Len(made.caseCtx) >= Len(new)
                        /\ SubSeq(made.caseCtx, 1, Len(new)) = new

\* A parallel batch has returned whose before-batch callbacks returned a
\* context, with a rejected case and a case the runner was called for.
C18_Witness ==
    \E b \in Batches :
        /\ BeforeSetPassed(b) /\ opts[b].Callbacks.BeforeInferenceSet.ctx # ""
        /\ CasesDone(b) /\ pc[b] = "returned"
        /\ opts[b].EvalCaseParallelInferenceEnabled
        /\ hist[b].rejected # {}
        /\ \E i \in 1..Len(evalCases[b]) : hist[b].calls[i].runner > 0

\* The case ids of the request of batch b as the before-batch callbacks
\* left it.
RequestedIDs(b) ==
    LET h == opts[b].Callbacks.BeforeInferenceSet
    IN  IF h.ids # <<"keep">> THEN h.ids ELSE in[b].EvalCaseIDs

\* The ids, in the order of the eval set, of its cases whose id is in ids
\* (of all its cases if ids is empty).
SelectedIDs(evalSet, ids) ==
    LET Wanted(c) == ids = <<>> \/ \E n \in 1..Len(ids) : ids[n] = c.EvalID
        cases == SelectSeq(evalSet, Wanted)
    IN  [n \in 1..Len(cases) |-> cases[n].EvalID]

\* C19: the eval cases are loaded only after the before-batch callbacks
\* have run and succeeded, and the cases loaded, as the results returned,
\* are exactly the cases of the eval set whose id is in the request as
\* those callbacks left it.
C19_LoadAfterBeforeSet ==
    \A b \in Batches :
        /\ hist[b].loads <= 1
        /\ hist[b].loads = 1 => BeforeSetPassed(b)
        /\ (hist[b].loads = 1 /\ ~LoadFailed(b)) =>
              /\ [n \in 1..Len(evalCases[b]) |-> evalCases[b][n].EvalID]
                    = SelectedIDs(in[b].evalSet, RequestedIDs(b))
              /\ (pc[b] = "returned" /\ ~AfterSetFailed(b)) =>
                    /\ ~ret[b].results.isNil
                    /\ [n \in 1..Len(ret[b].results.items) |->
                            ret[b].results.items[n].EvalCaseID]
                          = SelectedIDs(in[b].evalSet, RequestedIDs(b))

\* Inference has returned the one result of case c2 of a larger eval set,
\* for a request that named no case and that a before-batch callback
\* narrowed to c2.
C19_Witness ==
    \E b \in Batches :
        /\ pc[b] = "returned" /\ ret[b].err = NoErr
        /\ in[b].EvalCaseIDs = <<>>
        /\ opts[b].Callbacks.BeforeInferenceSet.ids = <<"c2">>
        /\ Len(in[b].evalSet) > 1
        /\ Len(ret[b].results.items) = 1
        /\ ret[b].results.items[1].EvalCaseID = "c2"

\* The value of option field f for the call of batch b: that of the last
\* option argument that sets it, the service's (default) if none does.
EffectiveOption(b, f, default) ==
    LET setters == {n \in 1..Len(in[b].opt) : f \in in[b].opt[n].set} IN
    IF setters = {} THEN default
    ELSE in[b].opt[CHOOSE n \in setters : \A m \in setters : m <= n].val[f]

NoManager(b) == EffectiveOption(b, "EvalSetManager", svc.evalSetManager) = "nil"
NoSupplier(b) == EffectiveOption(b, "SessionIDSupplier", svc.sessionIDSupplier) = "nil"
NoWorkers(b) ==
    /\ EffectiveOption(b, "EvalCaseParallelInferenceEnabled",
                       svc.evalCaseParallelInferenceEnabled)
    /\ EffectiveOption(b, "EvalCaseParallelism", svc.evalCaseParallelism) <= 0

\* C20: a call whose options, all option arguments applied, have no
\* manager, no session id supplier, or parallel inference with a worker
\* count of zero or less, returns from option resolution with nil results
\* and the error of the first of these checks that fails; no before-batch,
\* after-batch or case callback has run, no case was loaded, submitted or
\* processed.
C20_OptionErrorsAbort ==
    \A b \in Batches :
        (pc[b] \notin {"off", "start"} /\ (NoManager(b) \/ NoSupplier(b) \/ NoWorkers(b))) =>
            /\ pc[b] = "returned"
            /\ ret[b].results.isNil
            /\ ret[b].err = IF NoManager(b) THEN <<"eval set manager is nil">>
                            ELSE IF NoSupplier(b) THEN <<"session id supplier is nil">>
                            ELSE <<"eval case parallelism must be greater than 0">>
            /\ hist[b].beforeSet = 0 /\ hist[b].afterSet = 0 /\ hist[b].loads = 0
            /\ evalCases[b] = <<>> /\ results[b] = <<>>
            /\ hist[b].adds = 0
            /\ \A i \in 1..MaxCases : hist[b].writes[i] = 0 /\ hist[b].calls[i] = NoCalls

\* A call has returned whose option arguments enabled parallel inference
\* with no worker, on a service with callbacks and an eval set with cases.
C20_Witness ==
    \E b \in Batches :
        /\ pc[b] = "returned"
        /\ NoWorkers(b) /\ ~NoManager(b) /\ ~NoSupplier(b)
        /\ svc.callbacks.BeforeInferenceSet.ctx # ""
        /\ Len(in[b].evalSet) > 0

\* The service's stored value of option field f.
ServiceDefault(f) ==
    CASE f = "EvalSetManager" -> svc.evalSetManager
      [] f = "SessionIDSupplier" -> svc.sessionIDSupplier
      [] f = "Callbacks" -> svc.callbacks
      [] f = "RunOptions" -> svc.runOptions
      [] f = "EvalCaseParallelism" -> svc.evalCaseParallelism
      [] f = "EvalCaseParallelInferenceEnabled" -> svc.evalCaseParallelInferenceEnabled

\* Option resolution has returned the options of batch b.
Resolved(b) ==
    /\ pc[b] \notin {"off", "start"}
    /\ ~(pc[b] = "returned" /\ hist[b].beforeSet = 0)

\* C21: the options a call works with have, in every field, the value of
\* the last option argument that sets the field and the service's stored
\* value if none does; the session ids of its results come from that
\* supplier and its after-batch callbacks get the context that callback
\* set's before-batch callback returned.
C21_LastOverrideWins ==
    \A b \in Batches :
        Resolved(b) =>
            /\ \A f \in OptionFields : opts[b][f] = EffectiveOption(b, f, ServiceDefault(f))
            /\ (pc[b] = "returned" /\ ret[b].err = NoErr) =>
                 LET cb == EffectiveOption(b, "Callbacks", svc.callbacks)
                     c == IF cb.BeforeInferenceSet.ctx = "" THEN Background
                          ELSE Background \o <<cb.BeforeInferenceSet.ctx>>
                 IN /\ hist[b].afterSetArgs.ctx = c
                    /\ \A i \in 1..Len(ret[b].results.items) :
                         ret[b].results.items[i].SessionID =
                            <<EffectiveOption(b, "SessionIDSupplier", svc.sessionIDSupplier), c>>

\* A call has returned results whose option arguments set the session id
\* supplier twice, to different values, and replaced the callbacks.
C21_Witness ==
    \E b \in Batches :
        /\ pc[b] = "returned" /\ ret[b].err = NoErr /\ Len(ret[b].results.items) > 0
        /\ \E m, n \in 1..Len(in[b].opt) :
             /\ m < n
             /\ "SessionIDSupplier" \in in[b].opt[m].set \cap in[b].opt[n].set
             /\ in[b].opt[m].val.SessionIDSupplier # in[b].opt[n].val.SessionIDSupplier
        /\ opts[b].SessionIDSupplier = "call-session"
        /\ svc.sessionIDSupplier = "default-session"
        /\ opts[b].Callbacks # svc.callbacks

\* The options of batch b, all option arguments applied, ask for parallel
\* inference with a positive worker count, a manager and a supplier.
WantsPool(b) ==
    /\ pc[b] # "off"
    /\ ~NoManager(b) /\ ~NoSupplier(b)
    /\ EffectiveOption(b, "EvalCaseParallelInferenceEnabled",
                       svc.evalCaseParallelInferenceEnabled)
    /\ EffectiveOption(b, "EvalCaseParallelism", svc.evalCaseParallelism) > 0

\* C22: the service constructs its worker pool at most once; once an
\* ensure call has run, the pool or the error it left never changes, so
\* every later ensure call of any batch returns it; a call that asks for
\* parallel inference returns that error if there is one, and else never
\* has more workers running than the pool that was constructed has,
\* whatever worker count its options ask for.
C22_PoolConstructedOnce ==
    [][/\ pool'.built <= 1
       /\ pool.once => pool' = pool
       /\ Cardinality({w \in Workers : worker'[w].pc # "idle"}) <= pool'.size
       /\ \A b \in Batches :
            (WantsPool(b) /\ pc'[b] # "start" /\ pool'.err # NoErr) =>
                pc'[b] = "returned" /\ ret'[b].err = pool'.err /\ ret'[b].results.isNil
      ]_vars

\* Two concurrent calls that asked for parallel inference with different
\* worker counts have both returned results from the one pool.
C22_Witness ==
    \E a, b \in Batches :
        /\ WantsPool(a) /\ WantsPool(b)
        /\ opts[a].EvalCaseParallelism # opts[b].EvalCaseParallelism
        /\ pc[a] = "returned" /\ pc[b] = "returned"
        /\ ret[a].err = NoErr /\ ret[b].err = NoErr
        /\ hist[a].adds > 0 /\ hist[b].adds > 0
        /\ pool.built = 1

\* C23: a task parameter inside the recycler is the zero parameter (index
\* 0, every reference nil); every parameter that was put back, by a worker
\* or by the rejection branch, had been reset; and a parameter an executor
\* or a worker has in hand refers to no batch but the one it works for.
C23_RecycledParamsAreReset ==
    /\ \A p \in ParamIds : recycler[p] > 0 => params[p] = ZeroParam
    /\ \A b \in Batches :
         /\ hist[b].dirtyPuts = 0
         /\ held[b] # 0 =>
              LET q == params[held[b]] IN
              /\ q.req \in {0, b} /\ q.opts \in {0, b}
              /\ q.results \in {0, b} /\ q.wg \in {0, b}
    /\ \A w \in Workers :
         worker[w].pc # "idle" =>
              LET q == params[worker[w].param] IN
              /\ q.req \in {0, worker[w].task[1]} /\ q.opts \in {0, worker[w].task[1]}
              /\ q.results \in {0, worker[w].task[1]} /\ q.wg \in {0, worker[w].task[1]}

\* The second of two parallel calls holds, filled for its first case, a
\* parameter of the first call, which put its parameters back on both
\* paths: one by the rejection branch and one by a worker.
C23_Witness ==
    /\ pc[1] = "returned" /\ pc[2] = "parInvoke"
    /\ hist[1].rejected # {}
    /\ \E i \in hist[1].rejected : hist[1].puts[i] = 1
    /\ \E i \in 1..Len(evalCases[1]) : i \notin hist[1].rejected /\ hist[1].puts[i] = 1
    /\ hist[2].adds = 1
    /\ held[2] \in allocated /\ params[held[2]].req = 2
    /\ \A q \in allocated \ {held[2]} : recycler[q] = 1

\* The runner panics on case i of batch b.
Panics(b, i) == in[b].runner[evalCases[b][i].EvalID] = RunnerPanic

\* In every state: no case is signaled twice; once the worker of a case
\* whose pipeline panicked has put its parameter back, it has signaled the
\* barrier once, the parameter went back once and reset, and nothing was
\* written to the case's slot; and when a parallel batch is over, every
\* other case has its own result in its own slot, written once.
PanicContained ==
    \A b \in Batches :
        /\ wg[b] >= 0
        /\ \A i \in 1..Len(evalCases[b]) :
             /\ hist[b].workerSignals[i] + hist[b].executorSignals[i] <= 1
             /\ (Panics(b, i) /\ i \notin hist[b].rejected /\ hist[b].puts[i] >= 1) =>
                    /\ hist[b].workerSignals[i] = 1
                    /\ hist[b].puts[i] = 1
                    /\ hist[b].dirtyPuts = 0
                    /\ hist[b].writes[i] = 0
        /\ ParallelReturned(b) =>
             \A j \in 1..Len(evalCases[b]) :
                 ~Panics(b, j) =>
                    /\ hist[b].writes[j] = 1
                    /\ ~Handed(b)[j].isNilResult
                    /\ Handed(b)[j].EvalCaseID = evalCases[b][j].EvalID
                    /\ Handed(b)[j].Status =
                          IF j \in hist[b].rejected THEN StatusFailed ELSE StatusPassed

\* C24: a worker whose case pipeline panics still signals the barrier
\* exactly once and resets and puts back its parameter; the parallel batch
\* returns in the end, and the slots of the other cases hold their results.
C24_WorkerCleansUpOnPanic ==
    /\ []PanicContained
    /\ <>(\A b \in Batches :
            (pc[b] # "off" /\ svc.evalCaseParallelInferenceEnabled) => pc[b] = "returned")

\* A parallel batch has returned in which a worker ran a case whose
\* pipeline panicked and another case passed.
C24_Witness ==
    \E b \in Batches :
        /\ ParallelReturned(b) /\ pc[b] = "returned"
        /\ \E i \in 1..Len(evalCases[b]) :
             /\ Panics(b, i) /\ i \notin hist[b].rejected
             /\ hist[b].calls[i].runner = 1
             /\ hist[b].workerSignals[i] = 1 /\ hist[b].puts[i] = 1
        /\ \E j \in 1..Len(evalCases[b]) : Handed(b)[j].Status = StatusPassed

\* The pipeline of case i of batch b has run, its result is in slot i, and
\* the case callbacks for it return no error.
Inferred(b, i) ==
    /\ i \in 1..Len(evalCases[b]) /\ i <= Len(results[b])
    /\ ~results[b][i].isNilResult
    /\ i \notin hist[b].rejected
    /\ opts[b].Callbacks.BeforeInferenceCase[evalCases[b][i].EvalID].err = NoErr
    /\ opts[b].Callbacks.AfterInferenceCase[evalCases[b][i].EvalID] = NoErr

ActualIsSound(evalCase) ==
    /\ \A n \in 1..Len(evalCase.ActualConversation) :
         evalCase.ActualConversation[n] \notin {"nil", "nouser"}
    /\ Len(evalCase.Conversation) # 0 =>
         Len(evalCase.ActualConversation) = Len(evalCase.Conversation)

RECURSIVE InjectedBy(_)
InjectedBy(runOpts) ==
    IF runOpts = <<>> THEN <<>>
    ELSE (IF Head(runOpts).kind = "inject" THEN Head(runOpts).val ELSE <<>>)
         \o InjectedBy(Tail(runOpts))

\* C28: the runner of a live-mode case finds as injected context messages
\* those of the global run options, in their order, followed by the
\* case's context messages, and as runtime state the state of the case's
\* session input, also when a global run option sets a runtime state.
C28_GlobalThenCaseRunOptions ==
    \A b \in Batches : \A i \in 1..Len(evalCases[b]) :
        hist[b].calls[i].runner >= 1 =>
            /\ hist[b].calls[i].runOptions.InjectedContextMessages =
                  InjectedBy(opts[b].RunOptions) \o evalCases[b][i].ContextMessages
            /\ hist[b].calls[i].runOptions.RuntimeState = evalCases[b][i].SessionInput.State

\* The runner was called for a case with two context messages on a service
\* whose global run options inject a message and set a runtime state.
C28_Witness ==
    \E b \in Batches : \E i \in 1..Len(evalCases[b]) :
        /\ hist[b].calls[i].runner = 1
        /\ Len(evalCases[b][i].ContextMessages) = 2
        /\ InjectedBy(opts[b].RunOptions) # <<>>
        /\ \E n \in 1..Len(opts[b].RunOptions) :
             /\ opts[b].RunOptions[n].kind = "state"
             /\ opts[b].RunOptions[n].val # evalCases[b][i].SessionInput.State
        /\ Len(hist[b].calls[i].runOptions.InjectedContextMessages) >= 3

\* C29: every result in the list Inference returns is a result with status
\* passed or failed; it has an error message exactly if it is failed, and
\* nil invocations exactly if it is failed.
C29_ResultShape ==
    \A b \in Batches :
        (pc[b] = "returned" /\ ~ret[b].results.isNil) =>
            \A i \in 1..Len(ret[b].results.items) :
                LET r == ret[b].results.items[i] IN
                /\ ~r.isNilResult
                /\ r.Status \in {StatusPassed, StatusFailed}
                /\ r.ErrorMessage # NoErr <=> r.Status = StatusFailed
                /\ r.Inferences.isNil <=> r.Status = StatusFailed

\* Inference has returned a list with a trace-mode case that passed its
\* pipeline and was failed by its after-case callback, and a case whose
\* runner call failed.
C29_Witness ==
    \E b \in Batches :
        /\ pc[b] = "returned" /\ Len(ret[b].results.items) = 2
        /\ evalCases[b][1].EvalMode = EvalModeTrace
        /\ hist[b].calls[1].afterArgs.Result.Status = StatusPassed
        /\ ret[b].results.items[1].Status = StatusFailed
        /\ hist[b].calls[2].runner = 1
        /\ ret[b].results.items[2].Status = StatusFailed

\* The result of case i of batch b says its runner call was cancelled.
CancelledResult(r) ==
    \E n \in 1..Len(r.ErrorMessage) : r.ErrorMessage[n] = "context canceled"

\* In every state of a parallel batch: a slot holds nothing or a result of
\* its own case; a result that says the runner call was cancelled is a
\* failed one with nil invocations, of a case whose runner was called
\* once; and when the batch is over the list has a result for every case.
SlotsKeptUnderCancel ==
    \A b \in Batches :
        (pc[b] # "off" /\ opts[b].EvalCaseParallelInferenceEnabled) =>
            /\ \A i \in 1..Len(results[b]) :
                 ~results[b][i].isNilResult =>
                    /\ results[b][i].EvalCaseID = evalCases[b][i].EvalID
                    /\ results[b][i].Status \in {StatusPassed, StatusFailed}
                    /\ CancelledResult(results[b][i]) =>
                          /\ results[b][i].Status = StatusFailed
                          /\ results[b][i].Inferences.isNil
                          /\ hist[b].calls[i].runner = 1
                    /\ (results[b][i].Status = StatusFailed /\ i \notin hist[b].rejected) =>
                          CancelledResult(results[b][i])
            /\ pc[b] = "returned" =>
                 /\ ~ret[b].results.isNil
                 /\ Len(ret[b].results.items) = Len(evalCases[b])
                 /\ ret[b].results.items = results[b]
                 /\ \A i \in 1..Len(evalCases[b]) : ~results[b][i].isNilResult

\* C30: whenever the caller cancels the context of a parallel batch, the
\* batch returns in the end a list with the result of case i in slot i; a
\* result once in its slot is never changed, by the cancellation or after
\* it; and a case whose runner call is cancelled is failed in its own slot.
C30_CancelKeepsSlots ==
    /\ []SlotsKeptUnderCancel
    /\ [][\A b \in Batches : \A i \in 1..Len(results[b]) :
            (opts[b].EvalCaseParallelInferenceEnabled /\ ~results[b][i].isNilResult) =>
                results'[b][i] = results[b][i]]_vars
    /\ <>(\A b \in Batches :
            (pc[b] # "off" /\ svc.evalCaseParallelInferenceEnabled) => pc[b] = "returned")

\* A parallel batch has returned whose context was cancelled after its
\* first case had passed: the first slot holds the passed result and a
\* later one a result failed by the cancellation.
C30_Witness ==
    \E b \in Batches :
        /\ pc[b] = "returned" /\ in[b].cancelled
        /\ opts[b].EvalCaseParallelInferenceEnabled
        /\ Len(ret[b].results.items) = PairCases
        /\ ret[b].results.items[1].Status = StatusPassed
        /\ \E i \in 2..PairCases :
             /\ CancelledResult(ret[b].results.items[i])
             /\ ret[b].results.items[i].EvalCaseID = evalCases[b][i].EvalID

\* Sequence a is the beginning of sequence b.
IsPrefix(a, b) == Len(a) <= Len(b) /\ a = SubSeq(b, 1, Len(a))

\* The input of the AG-UI run is refused before the underlying runner is
\* called: no message, a failing user-id resolver, or a last message that is
\* not a user message.
Refused(input) ==
    IF Len(input.messages) = 0 THEN TRUE
    ELSE \/ input.resolver = "err"
         \/ input.messages[Len(input.messages)] # "user"

\* The events channel has delivered RunStarted and then a RunError, and
\* nothing else.
StartedThenError(evts) ==
    /\ Len(evts) = 2
    /\ evts[1].type = "RUN_STARTED"
    /\ evts[2].type = "RUN_ERROR"

\* C31: an AG-UI run whose input has no messages, whose user-id resolver
\* fails or whose last message is not a user message never calls the
\* underlying runner, and when its events channel is closed it has delivered
\* exactly RunStarted and then RunError; a run whose underlying runner's Run
\* fails delivers the same two events and has called the runner once.
C31_RefusedRunReportsError ==
    agui.pc # "off" =>
        /\ Refused(agui.input) =>
              /\ agui.runnerCalls = 0
              /\ Len(agui.events) <= 2
              /\ agui.closed => StartedThenError(agui.events)
        /\ (~Refused(agui.input) /\ agui.input.run = "err") =>
              /\ agui.runnerCalls <= 1
              /\ Len(agui.events) <= 2
              /\ agui.closed => (StartedThenError(agui.events) /\ agui.runnerCalls = 1)
        /\ agui.closed => (agui.pc = "done" /\ agui.pending = <<>>)

\* A run whose last message is an assistant's and whose resolver answered
\* is over: its channel is closed.
C31_Witness ==
    /\ agui.closed
    /\ agui.input.messages = <<"user", "assistant">>
    /\ agui.input.resolver = "ok" /\ agui.resolverCalls = 1
    /\ StartedThenError(agui.events)

\* What run forwards of the agent's stream `stream` from its event k on:
\* the translations in order, up to a RunError for the first event whose
\* translation fails.
RECURSIVE Forwarded(_, _)
Forwarded(stream, k) ==
    IF k > Len(stream) THEN <<>>
    ELSE IF Translate(stream[k]).err # NoErr
         THEN <<RunErrorEvent("translate event: bad event")>>
         ELSE Translate(stream[k]).events \o Forwarded(stream, k + 1)

\* The events of the stream up to the first whose translation fails, that
\* one included.
RECURSIVE Translatable(_, _)
Translatable(stream, k) ==
    IF k > Len(stream) THEN <<>>
    ELSE IF Translate(stream[k]).err # NoErr THEN <<stream[k]>>
         ELSE <<stream[k]>> \o Translatable(stream, k + 1)

\* C32: an AG-UI run with valid input delivers RunStarted first and then
\* the translations of the agent's events in the agent's order and, within
\* one agent event, in the translator's order; its channel is closed only
\* after the agent's stream has ended, unless a translation failed: then a
\* RunError is the last event delivered, no later agent event is
\* translated or forwarded, and the channel is closed.
C32_TranslationsInAgentOrder ==
    (agui.pc # "off" /\ ~Refused(agui.input) /\ agui.input.run = "ok") =>
        LET expected == <<RunStartedEvent>> \o Forwarded(agui.input.stream, 1)
            failing == \E k \in 1..Len(agui.input.stream) :
                          Translate(agui.input.stream[k]).err # NoErr IN
        /\ IsPrefix(agui.events, expected)
        /\ IsPrefix(agui.translated, Translatable(agui.input.stream, 1))
        /\ agui.closed =>
              /\ agui.events = expected
              /\ agui.pc = "done"
              /\ ~failing => (agui.chClosed /\ agui.ch = <<>>
                              /\ agui.translated = agui.input.stream)
              /\ failing => (agui.events[Len(agui.events)].type = "RUN_ERROR" /\ agui.failed)

\* A run is over whose agent emitted an event with two translations, then
\* one whose translation fails, then another one: the channel is closed.
C32_Witness ==
    /\ agui.closed /\ ~Refused(agui.input)
    /\ Len(agui.input.stream) = MaxEvents /\ agui.emitted = MaxEvents
    /\ agui.input.stream[1].kind = "two"
    /\ agui.input.stream[2].kind = "err"
    /\ Len(agui.events) = 4

\* The stream of the turn has a final-response event, and an event that
\* carries an error.
HasFinalResponse(stream) == \E k \in 1..Len(stream) : IsFinalResponse(stream[k])
HasErrorEvent(stream) == \E k \in 1..Len(stream) : stream[k].kind = "error"

\* The turn has returned a failure: no invocation and an error.
TurnFailed == turn.pc = "returned" /\ turn.ret.err # NoErr /\ turn.ret.invocation.isNil

\* A turn that has returned has failed if its runner call returned an
\* error, if an event of its stream carried an error, or if its stream was
\* closed without a final-response event.
TurnOutcome ==
    (turn.pc = "returned" /\ turn.input.hasUserContent) =>
        /\ turn.input.run = "err" => TurnFailed
        /\ (turn.input.run = "ok" /\ HasErrorEvent(turn.input.stream)) => TurnFailed
        /\ (turn.input.run = "ok" /\ ~HasFinalResponse(turn.input.stream)) => TurnFailed

\* C33: consuming the event stream of one turn ends once the stream is
\* closed, and the turn fails if the runner call returns an error, if any
\* event carries an error, or if the stream closes without ever having
\* emitted a final-response event.
C33_TurnFailsWithoutFinalResponse ==
    /\ []TurnOutcome
    /\ (turn.chClosed ~> turn.pc = "returned")

\* The call ids of the trace `tools`, in order.
TraceIDs(tools) == [i \in 1..Len(tools) |-> tools[i].ID]

\* The call ids of the tool-call events among the first n events of the
\* stream, in order of arrival.
RECURSIVE ArrivedCallIDs(_, _)
ArrivedCallIDs(stream, n) ==
    IF n = 0 THEN <<>>
    ELSE ArrivedCallIDs(stream, n - 1)
         \o (IF IsToolCallResponse(stream[n]) THEN stream[n].ids ELSE <<>>)

\* The step takes the event e from the stream of the turn.
Consumes(e) ==
    /\ turn.pc = "range" /\ turn.ch # <<>> /\ e = Head(turn.ch)
    /\ turn'.consumed = turn.consumed + 1

\* C34: while the stream of a turn is consumed, the trace holds the tool
\* calls in the order their events arrived; a tool-result event leaves the
\* number and the order of the entries as they are and writes its result
\* into an entry with its call id, touching no entry with another id; and a
\* tool-result event with a call id that no recorded tool call has fails
\* the turn.
C34_ToolTraceInArrivalOrder ==
    [][\A k \in 1..Len(turn.input.stream) :
         LET e == turn.input.stream[k] IN
         Consumes(e) =>
            /\ TraceIDs(turn.tools) = ArrivedCallIDs(turn.input.stream, k - 1)
            /\ IsToolCallResponse(e) =>
                  /\ TraceIDs(turn'.tools) = ArrivedCallIDs(turn.input.stream, k)
                  /\ \A i \in 1..Len(turn.tools) : turn'.tools[i] = turn.tools[i]
                  /\ turn'.pc = "range"
            /\ IsToolResultResponse(e) =>
                  /\ TraceIDs(turn'.tools) = TraceIDs(turn.tools)
                  /\ \A i \in 1..Len(turn.tools) :
                        \/ turn'.tools[i] = turn.tools[i]
                        \/ /\ \E n \in 1..Len(e.ids) : e.ids[n] = turn.tools[i].ID
                           /\ turn'.tools[i].Result = e.k
                  /\ IF \A n \in 1..Len(e.ids) :
                           \E i \in 1..Len(turn.tools) : turn.tools[i].ID = e.ids[n]
                     THEN /\ turn'.pc = "range"
                          /\ \A n \in 1..Len(e.ids) :
                                \E i \in 1..Len(turn.tools) :
                                    /\ turn'.tools[i].ID = e.ids[n]
                                    /\ turn'.tools[i].Result = e.k
                     ELSE /\ turn'.pc = "returned"
                          /\ turn'.ret.err # NoErr /\ turn'.ret.invocation.isNil
      ]_vars

\* A turn has returned an invocation whose trace has two tool calls, in
\* the order of their events, the second with the result of a later event
\* and the first with none.
C34_Witness ==
    /\ turn.pc = "returned" /\ turn.ret.err = NoErr
    /\ TraceIDs(turn.ret.invocation.Tools) = <<"t1", "t2">>
    /\ turn.ret.invocation.Tools[1].Result = 0
    /\ turn.ret.invocation.Tools[2].Result > 0

\* The text `text` is part of the error (or error message) err.
HasText(err, text) == \E n \in 1..Len(err) : err[n] = text

\* C35: when the after-case hook of a case runs, the case's pipeline has
\* finished: the hook receives the result of its own case, already passed
\* or failed, and the processing error, which is non-nil exactly if the
\* result is failed and is then the result's error message; for a case whose
\* runner call failed the error is non-nil and the result is failed with an
\* error message that contains the runner's error text.  The result the
\* hook received is the case's final one unless the hook itself fails.
C35_AfterCaseHookSeesOutcome ==
    \A b \in Batches : \A i \in 1..Len(evalCases[b]) :
        hist[b].calls[i].after > 0 =>
            LET c == hist[b].calls[i]
                a == c.afterArgs
                id == evalCases[b][i].EvalID
            IN
            /\ c.after = 1 /\ c.before = 1
            /\ ~a.Result.isNilResult /\ a.Result.EvalCaseID = id
            /\ a.Result.Status \in {StatusPassed, StatusFailed}
            /\ (a.Error # NoErr) <=> (a.Result.Status = StatusFailed)
            /\ a.Result.Status = StatusFailed =>
                  (a.Result.ErrorMessage = a.Error /\ a.Result.Inferences.isNil)
            /\ (c.runner > 0 /\ in[b].runner[id] # NoErr) =>
                  /\ a.Error # NoErr
                  /\ a.Result.Status = StatusFailed
                  /\ \A n \in 1..Len(in[b].runner[id]) :
                        HasText(a.Result.ErrorMessage, in[b].runner[id][n])
            /\ ~results[b][i].isNilResult =>
                  IF opts[b].Callbacks.AfterInferenceCase[id] = NoErr
                  THEN results[b][i] = a.Result
                  ELSE results[b][i].Status = StatusFailed

\* The after-case hook of a case whose runner call failed has run and the
\* case's result is in its slot.
C35_Witness ==
    \E b \in Batches : \E i \in 1..Len(evalCases[b]) :
        /\ hist[b].calls[i].after = 1 /\ hist[b].calls[i].runner = 1
        /\ in[b].runner[evalCases[b][i].EvalID] # NoErr
        /\ HasText(hist[b].calls[i].afterArgs.Error, "boom")
        /\ ~results[b][i].isNilResult /\ results[b][i].Status = StatusFailed

\* The places where the task parameter p is: in the recycler (as often as
\* it was put there), in the hands of an executor, in the hands of a worker.
Holders(p) ==
    recycler[p]
    + Cardinality({b \in Batches : held[b] = p})
    + Cardinality({w \in Workers : worker[w].pc # "idle" /\ worker[w].param = p})

\* C36: every task parameter a parallel batch acquired goes back to the
\* recycler exactly once: a parameter is at any time in one place only (the
\* recycler, its executor, or the worker that reads it), the parameter of a
\* slot is put back at most once, by the executor if the submission was
\* rejected and by the worker that ran the case otherwise, and when the
\* batch has returned and the workers are at rest the parameter of every
\* slot has been put back.
C36_ParamReturnedOnce ==
    /\ \A p \in ParamIds :
         IF p \in allocated THEN Holders(p) = 1 ELSE Holders(p) = 0
    /\ \A b \in Batches :
         /\ \A i \in 1..MaxCases :
              /\ hist[b].puts[i] <= 1
              /\ hist[b].puts[i] = 1 =>
                    IF i \in hist[b].rejected
                    THEN hist[b].workerSignals[i] = 0 /\ hist[b].executorSignals[i] = 1
                    ELSE hist[b].workerSignals[i] = 1 /\ hist[b].executorSignals[i] = 0
         /\ (ParallelReturned(b) /\ pc[b] = "returned" /\ Busy = {}) =>
              \A i \in 1..Len(evalCases[b]) : hist[b].puts[i] = 1

\* A parallel batch has returned and the workers are at rest; one of its
\* parameters was put back by the executor after a rejected submission and
\* another by a worker.
C36_Witness ==
    \E b \in Batches :
        /\ ParallelReturned(b) /\ pc[b] = "returned" /\ Busy = {}
        /\ \E i \in hist[b].rejected : hist[b].puts[i] = 1
        /\ \E i \in 1..Len(evalCases[b]) :
             i \notin hist[b].rejected /\ hist[b].puts[i] = 1 /\ hist[b].workerSignals[i] = 1

\* The non-nil cases of the eval set whose id is among ids (all of them if
\* ids is empty), in the order of the eval set.
ProcessedCases(evalSet, ids) ==
    SelectSeq(evalSet,
              LAMBDA c : /\ ~c.isNil
                         /\ (ids = <<>> \/ \E n \in 1..Len(ids) : ids[n] = c.EvalID))

\* C37: the cases a batch processes are the non-nil cases of the eval set
\* in eval-set order; when the request lists case ids, they are exactly the
\* eval-set cases whose id is listed, still in eval-set order, each once
\* even if its id is listed twice, and a listed id that no case has is
\* ignored without error.  The results returned are those of these cases,
\* each processed once.
C37_CasesInEvalSetOrder ==
    \A b \in Batches :
        (hist[b].loads = 1 /\ ~LoadFailed(b)) =>
            LET expected == ProcessedCases(in[b].evalSet, RequestedIDs(b)) IN
            /\ evalCases[b] = expected
            /\ \A m, n \in 1..Len(evalCases[b]) :
                  m < n =>
                     \E i, j \in 1..Len(in[b].evalSet) :
                        /\ i < j
                        /\ in[b].evalSet[i] = evalCases[b][m]
                        /\ in[b].evalSet[j] = evalCases[b][n]
            /\ \A i \in 1..MaxCases : hist[b].calls[i].before <= 1
            /\ (pc[b] = "returned" /\ ~AfterSetFailed(b)) =>
                  /\ ret[b].err = NoErr
                  /\ ~ret[b].results.isNil
                  /\ Len(ret[b].results.items) = Len(expected)
                  /\ \A n \in 1..Len(expected) :
                        ret[b].results.items[n].EvalCaseID = expected[n].EvalID

\* A call has returned the results of cases c1 and c3, in this order, for
\* a request that listed c3, c1 and c3 again on an eval set whose second
\* case is nil.
C37_Witness ==
    \E b \in Batches :
        /\ pc[b] = "returned" /\ ret[b].err = NoErr
        /\ in[b].EvalCaseIDs = <<"c3", "c1", "c3">>
        /\ in[b].evalSet[2].isNil
        /\ Len(ret[b].results.items) = 2
        /\ ret[b].results.items[1].EvalCaseID = "c1"
        /\ ret[b].results.items[2].EvalCaseID = "c3"

\* The executor of batch b is past wg.Wait().
WaitReturned(b) ==
    /\ opts[b].EvalCaseParallelInferenceEnabled
    /\ hist[b].adds > 0
    /\ pc[b] \in {"afterSet", "returned"}

\* C38: a worker writes the result of its case into its slot before it
\* signals the barrier: a case a worker has signaled for has its result in
\* its slot, a worker that has still to run or to write has not signaled,
\* and so the barrier is not open; once the executor's wait has returned
\* no step changes the results array, and what Inference returned is that
\* array.
C38_WriteBeforeSignal ==
    /\ [](\A b \in Batches :
            /\ \A i \in 1..Len(results[b]) :
                  hist[b].workerSignals[i] > 0 =>
                     (hist[b].writes[i] = 1 /\ ~results[b][i].isNilResult)
            /\ \A w \in Workers :
                  (worker[w].pc \in {"run", "write"} /\ worker[w].task[1] = b) =>
                     /\ hist[b].workerSignals[worker[w].task[2]] = 0
                     /\ wg[b] > 0
                     /\ ~WaitReturned(b)
            /\ (WaitReturned(b) /\ ret[b].err = NoErr) =>
                  (~ret[b].results.isNil /\ ret[b].results.items = results[b]))
    /\ [][\A b \in Batches : WaitReturned(b) => results'[b] = results[b]]_vars

\* Inference has returned the results of a parallel batch while a worker,
\* which has written its result and signaled the barrier, has still to
\* reset its parameter.
C38_Witness ==
    \E b \in Batches : \E w \in Workers :
        /\ pc[b] = "returned" /\ WaitReturned(b)
        /\ worker[w].pc = "reset" /\ worker[w].task[1] = b
        /\ hist[b].workerSignals[worker[w].task[2]] = 1
        /\ ~results[b][worker[w].task[2]].isNilResult

\* The case ids of the results Inference returns for a request with the case
\* ids `ids` on an eval set of `n` cases: the cases of the set, or those of
\* them the request lists, in the order of the set.
OwnCaseIDs(n, ids) ==
    LET all == [i \in 1..n |-> CaseIdOf(i)] IN
    IF ids = <<>> THEN all
    ELSE SelectSeq(all, LAMBDA id : \E j \in 1..Len(ids) : ids[j] = id)

\* C39: two parallel batches run at the same time on one service share its
\* pool and its recycler: a worker that runs a task of batch b reads a
\* parameter that names the request, the results array and the barrier of
\* b and the slot of the task, it writes only into the results of b and
\* signals only the barrier of b, so that each slot of b is written once
\* and signaled once; and each batch returns exactly its own results, one
\* for each of its cases, in its own order, failed for the cases whose
\* runner failed or whose task the pool refused.
C39_BatchesShareOnlyPool ==
    /\ \A w \in Workers :
          worker[w].pc \in {"run", "write"} =>
             LET p == params[worker[w].param]
                 b == worker[w].task[1] IN
             /\ p.req = b /\ p.results = b /\ p.wg = b /\ p.opts = b
             /\ p.idx + 1 = worker[w].task[2]
             /\ p.evalCase = evalCases[b][worker[w].task[2]]
    /\ \A w \in Workers :
          worker[w].pc = "done" => worker[w].wg \in {0, worker[w].task[1]}
    /\ \A b \in Batches :
          /\ wg[b] >= 0
          /\ \A i \in 1..Len(results[b]) :
                /\ hist[b].writes[i] <= 1
                /\ hist[b].workerSignals[i] + hist[b].executorSignals[i] <= 1
                /\ ~results[b][i].isNilResult =>
                      results[b][i].EvalCaseID = evalCases[b][i].EvalID
          /\ (pc[b] = "returned" /\ ret[b].err = NoErr
                /\ opts[b].EvalCaseParallelInferenceEnabled) =>
                LET own == OwnCaseIDs(Len(in[b].kinds), in[b].EvalCaseIDs)
                    items == ret[b].results.items IN
                /\ Len(items) = Len(own)
                /\ \A i \in 1..Len(items) :
                      /\ ~items[i].isNilResult
                      /\ items[i].EvalCaseID = own[i]
                      /\ (items[i].Status = StatusFailed) =
                            (in[b].runner[own[i]] # NoErr \/ hist[b].executorSignals[i] = 1)

\* Two parallel batches of different cases have both returned; each worker
\* of the pool ran tasks of both, and parameters of the first batch were
\* used again by the second.
C39_Witness ==
    /\ \A b \in {1, 2} :
          /\ pc[b] = "returned" /\ ret[b].err = NoErr
          /\ opts[b].EvalCaseParallelInferenceEnabled
          /\ \E i \in 1..Len(results[b]) : hist[b].workerSignals[i] = 1
    /\ Len(ret[1].results.items) # Len(ret[2].results.items)
    /\ Cardinality(allocated) < Len(results[1]) + Len(results[2])

\* The options the first call without overrides resolves to on service s.
FirstResolved(s) == resolveInferenceOptions(s, NoPool, <<>>).callOpts

\* C40: resolving the options of a call leaves the service's stored
\* defaults as they are, whatever the call's overrides do to its run-option
\* list or to the other fields: no step changes the stored values, and a
\* call without overrides, made after or next to calls with overrides,
\* works with the options the first call without overrides resolves to.
C40_DefaultsUnchanged ==
    /\ [][svc' = svc]_vars
    /\ [](\E s \in DefaultServices :
            /\ svc = s
            /\ \A b \in Batches :
                  (Resolved(b) /\ in[b].opt = <<>>) => opts[b] = FirstResolved(s))

\* A call without overrides has resolved its options on a service with
\* stored run options, after a call that extended its own run-option list
\* and then assigned its first element has returned.
C40_Witness ==
    /\ svc.runOptions # <<>>
    /\ in[1].opt = <<ExtendRunOptions(<<WithInjectedContextMessages(<<"call injected">>)>>),
                     SetFirstRunOption(WithRuntimeState(<<"call state">>))>>
    /\ pc[1] = "returned" /\ ret[1].err = NoErr
    /\ in[2].opt = <<>> /\ in[2].after = 1
    /\ Resolved(2)
    /\ opts[2].RunOptions = svc.runOptions
    /\ opts[1].RunOptions # opts[2].RunOptions

====
